---- MODULE Spec2Model ----
(***************************************************************************)
(* A model of the JSX metadata annotator (namespace AttachMetadata of      *)
(* src/src/index.tsx): the identifier assigner, the root pass over a       *)
(* component's returned tree and the loop pass over `.map` callbacks.      *)
(*                                                                         *)
(* JavaScript strings (tag names, file paths, attribute string values,     *)
(* text runs, editor ids, identifier names) are tuples of one-character    *)
(* strings, so that trim, the first-letter test and concatenation are      *)
(* computed; node types and JSX attribute names, which the code only       *)
(* compares whole, are TLA+ strings.                                       *)
(***************************************************************************)
EXTENDS Integers, Sequences, FiniteSets, TLC

\* const name = value: the value is computed once and Body reads it by name
Bind(value, Body(_)) == Body(value)

\* ------------------------------------------------------------------------
\* crypto.createHash("md5").update(seed).digest("hex").substring(0, 12),
\* tabulated for every seed the bounded inputs can produce: each row is
\* <<seed, the first 12 hex digits of its MD5 digest>>.
MD5Rows == {
  <<"element[0]@src/A.js", <<"7","d","c","f","3","9","a","4","9","8","6","3">>>>,
  <<"element[1]@src/A.js", <<"8","5","0","a","0","0","5","5","5","5","8","6">>>>,
  <<"element[2]@src/A.js", <<"e","b","b","6","d","3","6","6","b","5","5","d">>>>,
  <<"element[3]@src/A.js", <<"2","5","3","b","c","5","7","3","6","0","6","8">>>>,
  <<"element[4]@src/A.js", <<"6","5","e","b","f","2","3","7","0","7","a","8">>>>,
  <<"element[5]@src/A.js", <<"0","4","7","f","1","e","3","f","2","6","c","e">>>>,
  <<"element[6]@src/A.js", <<"8","4","1","4","e","5","f","4","3","d","c","d">>>>,
  <<"element[7]@src/A.js", <<"1","a","5","7","3","4","8","5","d","b","3","7">>>>,
  <<"element[8]@src/A.js", <<"4","7","4","9","e","0","2","c","0","b","f","2">>>>,
  <<"element[9]@src/A.js", <<"f","a","d","f","f","9","1","8","0","c","b","8">>>>,
  <<"element[10]@src/A.js", <<"9","b","a","f","b","9","b","2","a","e","c","2">>>>,
  <<"element[11]@src/A.js", <<"8","1","4","6","0","b","f","4","b","8","7","3">>>>,
  <<"element[12]@src/A.js", <<"0","5","9","5","8","8","0","9","9","b","2","5">>>>,
  <<"element[13]@src/A.js", <<"e","2","a","e","d","9","3","e","5","1","c","b">>>>,
  <<"element[14]@src/A.js", <<"3","0","3","3","a","8","3","d","2","4","7","c">>>>,
  <<"element[15]@src/A.js", <<"1","5","e","5","7","f","c","6","c","7","2","e">>>>,
  <<"div.element[0]@src/A.js", <<"b","2","1","4","5","d","f","2","e","e","c","a">>>>,
  <<"div.element[1]@src/A.js", <<"f","c","4","9","0","4","e","8","a","e","8","d">>>>,
  <<"div.element[2]@src/A.js", <<"6","0","1","2","0","7","d","b","c","7","8","6">>>>,
  <<"div.element[3]@src/A.js", <<"3","f","6","2","8","9","c","e","9","a","9","7">>>>,
  <<"div.element[4]@src/A.js", <<"d","9","c","f","2","4","4","0","e","4","8","b">>>>,
  <<"div.element[5]@src/A.js", <<"7","2","d","3","6","0","3","3","5","a","5","0">>>>,
  <<"div.element[6]@src/A.js", <<"9","6","2","6","3","9","c","9","f","3","c","8">>>>,
  <<"div.element[7]@src/A.js", <<"6","f","5","e","a","2","4","9","5","7","b","1">>>>,
  <<"div.element[8]@src/A.js", <<"a","4","d","a","9","2","8","1","6","d","9","6">>>>,
  <<"div.element[9]@src/A.js", <<"9","9","6","7","a","a","c","f","0","3","4","8">>>>,
  <<"div.element[10]@src/A.js", <<"0","6","e","9","5","e","4","f","e","2","b","2">>>>,
  <<"div.element[11]@src/A.js", <<"0","9","1","0","c","4","1","c","3","e","7","3">>>>,
  <<"div.element[12]@src/A.js", <<"7","a","9","1","7","3","f","2","8","1","3","b">>>>,
  <<"div.element[13]@src/A.js", <<"4","d","0","4","f","c","6","8","0","e","f","a">>>>,
  <<"div.element[14]@src/A.js", <<"4","4","d","5","c","d","a","b","8","7","f","d">>>>,
  <<"div.element[15]@src/A.js", <<"b","9","7","1","8","4","0","b","e","f","f","7">>>>,
  <<"span.element[0]@src/A.js", <<"c","b","c","6","5","d","6","c","0","d","f","b">>>>,
  <<"span.element[1]@src/A.js", <<"5","6","f","6","5","3","c","1","7","a","c","1">>>>,
  <<"span.element[2]@src/A.js", <<"1","d","a","4","e","b","a","4","f","9","9","f">>>>,
  <<"span.element[3]@src/A.js", <<"e","0","a","8","7","5","b","0","2","7","f","4">>>>,
  <<"span.element[4]@src/A.js", <<"9","6","0","b","f","a","9","2","d","c","b","1">>>>,
  <<"span.element[5]@src/A.js", <<"6","8","e","3","d","a","6","c","9","b","c","2">>>>,
  <<"span.element[6]@src/A.js", <<"4","e","6","2","e","c","c","1","6","f","1","e">>>>,
  <<"span.element[7]@src/A.js", <<"a","8","7","6","c","0","a","e","a","a","d","8">>>>,
  <<"span.element[8]@src/A.js", <<"d","d","0","4","c","3","d","e","b","9","9","6">>>>,
  <<"span.element[9]@src/A.js", <<"5","d","7","1","b","4","f","6","d","d","c","f">>>>,
  <<"span.element[10]@src/A.js", <<"6","1","5","0","3","4","4","8","e","c","f","5">>>>,
  <<"span.element[11]@src/A.js", <<"e","8","5","7","5","3","0","0","9","7","d","4">>>>,
  <<"span.element[12]@src/A.js", <<"a","1","b","b","f","9","2","d","2","e","1","4">>>>,
  <<"span.element[13]@src/A.js", <<"b","1","7","7","3","0","a","b","7","0","4","3">>>>,
  <<"span.element[14]@src/A.js", <<"3","5","6","9","c","b","6","2","d","1","f","8">>>>,
  <<"span.element[15]@src/A.js", <<"6","f","2","a","8","0","c","4","6","1","8","5">>>>,
  <<"Card.element[0]@src/A.js", <<"c","9","f","6","e","6","c","f","2","c","7","6">>>>,
  <<"Card.element[1]@src/A.js", <<"2","c","c","d","9","7","0","f","1","f","a","e">>>>,
  <<"Card.element[2]@src/A.js", <<"c","1","7","e","d","7","6","4","0","7","2","1">>>>,
  <<"Card.element[3]@src/A.js", <<"a","9","9","0","b","3","9","2","1","2","0","9">>>>,
  <<"Card.element[4]@src/A.js", <<"b","6","2","8","0","2","4","e","6","7","8","9">>>>,
  <<"Card.element[5]@src/A.js", <<"9","4","3","2","8","c","b","1","a","3","c","a">>>>,
  <<"Card.element[6]@src/A.js", <<"7","f","4","d","3","4","f","d","3","4","9","2">>>>,
  <<"Card.element[7]@src/A.js", <<"f","d","d","e","e","1","6","f","4","4","d","2">>>>,
  <<"Card.element[8]@src/A.js", <<"8","9","d","d","7","3","7","0","0","3","b","e">>>>,
  <<"Card.element[9]@src/A.js", <<"e","2","6","a","9","6","e","1","1","c","e","5">>>>,
  <<"Card.element[10]@src/A.js", <<"6","b","3","9","e","6","d","a","a","c","b","f">>>>,
  <<"Card.element[11]@src/A.js", <<"7","f","0","8","d","8","5","f","9","9","e","4">>>>,
  <<"Card.element[12]@src/A.js", <<"9","1","c","e","2","6","8","7","d","2","9","7">>>>,
  <<"Card.element[13]@src/A.js", <<"9","4","3","7","0","9","6","3","f","5","a","8">>>>,
  <<"Card.element[14]@src/A.js", <<"e","e","6","8","5","8","e","0","c","c","c","6">>>>,
  <<"Card.element[15]@src/A.js", <<"3","9","a","7","0","f","6","9","c","7","1","e">>>>,
  <<"div.div.element[0]@src/A.js", <<"e","2","4","4","c","6","1","0","9","2","a","e">>>>,
  <<"div.div.element[1]@src/A.js", <<"c","9","2","1","8","f","1","7","9","7","d","c">>>>,
  <<"div.div.element[2]@src/A.js", <<"9","e","b","d","4","3","7","4","7","8","0","d">>>>,
  <<"div.div.element[3]@src/A.js", <<"b","1","e","1","d","0","5","5","9","1","1","5">>>>,
  <<"div.div.element[4]@src/A.js", <<"6","7","e","1","7","7","0","f","3","9","6","0">>>>,
  <<"div.div.element[5]@src/A.js", <<"1","8","e","4","6","8","e","a","6","6","2","4">>>>,
  <<"div.div.element[6]@src/A.js", <<"e","0","1","3","0","4","6","5","a","f","7","0">>>>,
  <<"div.div.element[7]@src/A.js", <<"3","4","c","3","8","1","7","c","a","d","8","2">>>>,
  <<"div.div.element[8]@src/A.js", <<"3","3","9","5","f","2","a","c","f","6","2","0">>>>,
  <<"div.div.element[9]@src/A.js", <<"3","5","3","3","0","8","5","a","9","0","0","6">>>>,
  <<"div.div.element[10]@src/A.js", <<"0","0","7","2","a","a","8","a","4","d","3","8">>>>,
  <<"div.div.element[11]@src/A.js", <<"6","2","4","1","0","6","4","7","8","5","5","4">>>>,
  <<"div.div.element[12]@src/A.js", <<"c","b","a","3","3","6","6","9","6","7","0","5">>>>,
  <<"div.div.element[13]@src/A.js", <<"e","3","1","c","d","c","4","4","6","9","a","6">>>>,
  <<"div.div.element[14]@src/A.js", <<"f","4","c","5","8","e","2","c","3","7","c","7">>>>,
  <<"div.div.element[15]@src/A.js", <<"f","1","c","b","c","2","3","0","4","8","2","0">>>>,
  <<"div.span.element[0]@src/A.js", <<"0","1","1","4","4","f","5","a","c","4","3","4">>>>,
  <<"div.span.element[1]@src/A.js", <<"5","d","8","1","d","b","2","8","0","6","9","6">>>>,
  <<"div.span.element[2]@src/A.js", <<"b","7","0","7","8","2","a","7","5","5","7","f">>>>,
  <<"div.span.element[3]@src/A.js", <<"6","3","e","a","5","3","c","e","5","c","f","b">>>>,
  <<"div.span.element[4]@src/A.js", <<"9","8","b","5","c","1","f","6","e","7","2","c">>>>,
  <<"div.span.element[5]@src/A.js", <<"2","d","c","1","4","2","9","f","1","5","5","e">>>>,
  <<"div.span.element[6]@src/A.js", <<"7","3","0","1","8","4","3","8","5","f","9","1">>>>,
  <<"div.span.element[7]@src/A.js", <<"8","f","e","2","e","8","b","e","d","5","0","5">>>>,
  <<"div.span.element[8]@src/A.js", <<"2","b","7","b","7","9","c","2","9","b","f","f">>>>,
  <<"div.span.element[9]@src/A.js", <<"8","8","d","f","e","9","0","0","0","c","4","9">>>>,
  <<"div.span.element[10]@src/A.js", <<"e","1","2","e","1","5","e","e","c","a","1","c">>>>,
  <<"div.span.element[11]@src/A.js", <<"0","2","5","3","9","4","b","8","6","d","a","7">>>>,
  <<"div.span.element[12]@src/A.js", <<"9","0","3","0","d","d","0","5","9","7","1","5">>>>,
  <<"div.span.element[13]@src/A.js", <<"2","7","5","b","b","5","c","d","8","f","5","7">>>>,
  <<"div.span.element[14]@src/A.js", <<"4","5","2","5","3","d","e","c","6","2","e","d">>>>,
  <<"div.span.element[15]@src/A.js", <<"9","9","b","6","b","9","0","1","5","2","6","0">>>>,
  <<"div.Card.element[0]@src/A.js", <<"4","8","6","f","2","c","8","7","7","f","1","6">>>>,
  <<"div.Card.element[1]@src/A.js", <<"f","c","9","1","f","0","f","e","4","a","a","1">>>>,
  <<"div.Card.element[2]@src/A.js", <<"9","c","1","0","3","0","9","f","3","b","0","1">>>>,
  <<"div.Card.element[3]@src/A.js", <<"8","d","0","6","8","b","8","3","2","9","3","b">>>>,
  <<"div.Card.element[4]@src/A.js", <<"4","3","c","7","5","f","a","1","d","e","b","6">>>>,
  <<"div.Card.element[5]@src/A.js", <<"d","2","f","7","f","b","3","0","4","2","d","a">>>>,
  <<"div.Card.element[6]@src/A.js", <<"c","4","9","e","5","a","7","f","1","b","8","5">>>>,
  <<"div.Card.element[7]@src/A.js", <<"e","d","5","5","7","b","1","c","1","8","1","c">>>>,
  <<"div.Card.element[8]@src/A.js", <<"3","f","c","d","a","1","c","5","f","0","5","3">>>>,
  <<"div.Card.element[9]@src/A.js", <<"9","e","f","c","6","2","6","5","0","6","d","b">>>>,
  <<"div.Card.element[10]@src/A.js", <<"f","b","d","b","d","a","4","6","c","9","6","1">>>>,
  <<"div.Card.element[11]@src/A.js", <<"a","1","7","b","a","f","3","a","a","6","f","2">>>>,
  <<"div.Card.element[12]@src/A.js", <<"c","a","9","9","8","9","5","f","5","a","e","7">>>>,
  <<"div.Card.element[13]@src/A.js", <<"0","9","6","8","4","1","d","7","e","5","4","c">>>>,
  <<"div.Card.element[14]@src/A.js", <<"b","4","b","2","e","8","5","9","7","6","4","e">>>>,
  <<"div.Card.element[15]@src/A.js", <<"a","6","1","8","8","2","f","9","0","f","9","d">>>>,
  <<"span.div.element[0]@src/A.js", <<"a","2","1","d","1","3","3","a","0","8","0","3">>>>,
  <<"span.div.element[1]@src/A.js", <<"e","b","9","4","5","f","f","a","0","2","e","c">>>>,
  <<"span.div.element[2]@src/A.js", <<"b","9","9","8","3","7","1","8","8","7","1","b">>>>,
  <<"span.div.element[3]@src/A.js", <<"9","4","1","a","8","9","4","9","4","3","a","e">>>>,
  <<"span.div.element[4]@src/A.js", <<"0","f","a","e","2","7","7","1","4","e","6","1">>>>,
  <<"span.div.element[5]@src/A.js", <<"5","4","8","7","c","f","2","e","d","9","a","0">>>>,
  <<"span.div.element[6]@src/A.js", <<"2","d","6","a","3","0","0","8","8","c","d","e">>>>,
  <<"span.div.element[7]@src/A.js", <<"c","3","d","a","7","4","6","e","9","7","e","e">>>>,
  <<"span.div.element[8]@src/A.js", <<"5","8","d","0","2","5","6","d","d","7","0","a">>>>,
  <<"span.div.element[9]@src/A.js", <<"a","5","3","1","c","c","c","e","8","4","d","2">>>>,
  <<"span.div.element[10]@src/A.js", <<"b","7","5","9","7","b","8","a","e","d","3","6">>>>,
  <<"span.div.element[11]@src/A.js", <<"b","c","5","7","e","8","0","f","2","2","0","7">>>>,
  <<"span.div.element[12]@src/A.js", <<"b","6","c","e","b","2","5","e","e","8","3","9">>>>,
  <<"span.div.element[13]@src/A.js", <<"7","b","6","d","b","b","7","8","2","6","4","9">>>>,
  <<"span.div.element[14]@src/A.js", <<"7","e","e","6","f","9","8","0","0","3","1","e">>>>,
  <<"span.div.element[15]@src/A.js", <<"e","3","a","3","5","8","8","1","f","7","a","2">>>>,
  <<"span.span.element[0]@src/A.js", <<"9","1","d","2","9","3","e","4","2","e","a","2">>>>,
  <<"span.span.element[1]@src/A.js", <<"9","d","9","a","4","d","d","f","3","6","6","b">>>>,
  <<"span.span.element[2]@src/A.js", <<"a","4","d","3","c","2","a","f","5","0","0","5">>>>,
  <<"span.span.element[3]@src/A.js", <<"5","1","e","9","5","c","5","7","e","f","5","9">>>>,
  <<"span.span.element[4]@src/A.js", <<"9","0","8","2","2","f","c","6","7","b","d","c">>>>,
  <<"span.span.element[5]@src/A.js", <<"1","0","1","0","8","d","d","d","f","9","d","6">>>>,
  <<"span.span.element[6]@src/A.js", <<"a","b","e","2","4","b","1","a","2","7","0","5">>>>,
  <<"span.span.element[7]@src/A.js", <<"9","c","3","0","6","7","f","2","a","0","9","6">>>>,
  <<"span.span.element[8]@src/A.js", <<"2","b","f","f","6","5","e","0","8","a","d","3">>>>,
  <<"span.span.element[9]@src/A.js", <<"4","0","2","a","3","d","d","6","1","e","2","4">>>>,
  <<"span.span.element[10]@src/A.js", <<"c","9","c","c","3","c","1","0","e","9","b","9">>>>,
  <<"span.span.element[11]@src/A.js", <<"4","b","f","0","c","6","a","a","6","4","9","d">>>>,
  <<"span.span.element[12]@src/A.js", <<"0","4","2","1","6","d","a","6","9","6","6","c">>>>,
  <<"span.span.element[13]@src/A.js", <<"b","c","b","c","0","2","1","2","1","b","6","d">>>>,
  <<"span.span.element[14]@src/A.js", <<"e","4","7","4","b","5","f","f","c","7","8","e">>>>,
  <<"span.span.element[15]@src/A.js", <<"5","5","4","3","5","7","0","4","d","5","7","6">>>>,
  <<"span.Card.element[0]@src/A.js", <<"e","2","0","7","7","0","5","7","e","6","4","7">>>>,
  <<"span.Card.element[1]@src/A.js", <<"5","5","4","6","0","c","a","a","a","c","b","e">>>>,
  <<"span.Card.element[2]@src/A.js", <<"7","1","3","9","2","2","c","e","3","b","5","4">>>>,
  <<"span.Card.element[3]@src/A.js", <<"f","7","f","e","7","0","5","4","d","2","0","7">>>>,
  <<"span.Card.element[4]@src/A.js", <<"8","b","1","1","a","f","5","e","9","7","f","5">>>>,
  <<"span.Card.element[5]@src/A.js", <<"0","2","e","e","1","f","2","4","3","7","0","a">>>>,
  <<"span.Card.element[6]@src/A.js", <<"2","2","c","0","d","7","4","5","3","e","5","2">>>>,
  <<"span.Card.element[7]@src/A.js", <<"6","e","e","1","e","4","c","f","1","f","3","b">>>>,
  <<"span.Card.element[8]@src/A.js", <<"5","1","e","9","a","1","2","7","9","3","d","0">>>>,
  <<"span.Card.element[9]@src/A.js", <<"0","0","0","c","3","d","c","7","a","c","e","4">>>>,
  <<"span.Card.element[10]@src/A.js", <<"8","0","6","b","d","6","8","f","8","4","7","c">>>>,
  <<"span.Card.element[11]@src/A.js", <<"b","0","0","d","2","8","3","e","6","0","5","e">>>>,
  <<"span.Card.element[12]@src/A.js", <<"7","8","a","7","4","0","2","e","f","5","0","2">>>>,
  <<"span.Card.element[13]@src/A.js", <<"1","f","f","c","2","8","0","9","f","0","9","4">>>>,
  <<"span.Card.element[14]@src/A.js", <<"e","d","5","2","a","7","e","a","3","9","d","2">>>>,
  <<"span.Card.element[15]@src/A.js", <<"a","e","8","0","f","9","7","4","4","2","0","e">>>>,
  <<"Card.div.element[0]@src/A.js", <<"3","a","9","9","7","9","d","b","b","0","7","4">>>>,
  <<"Card.div.element[1]@src/A.js", <<"7","d","4","a","c","9","8","b","0","2","2","d">>>>,
  <<"Card.div.element[2]@src/A.js", <<"e","1","f","1","f","3","0","6","a","1","6","d">>>>,
  <<"Card.div.element[3]@src/A.js", <<"0","9","1","7","8","5","2","7","d","5","8","9">>>>,
  <<"Card.div.element[4]@src/A.js", <<"f","d","0","5","c","a","7","0","8","6","1","d">>>>,
  <<"Card.div.element[5]@src/A.js", <<"e","8","c","1","4","b","6","c","3","7","c","e">>>>,
  <<"Card.div.element[6]@src/A.js", <<"1","c","e","9","9","9","2","8","e","e","a","6">>>>,
  <<"Card.div.element[7]@src/A.js", <<"a","d","2","0","d","1","4","7","4","d","c","1">>>>,
  <<"Card.div.element[8]@src/A.js", <<"4","9","e","0","f","8","f","9","b","9","6","4">>>>,
  <<"Card.div.element[9]@src/A.js", <<"3","5","0","9","f","e","4","3","7","a","7","0">>>>,
  <<"Card.div.element[10]@src/A.js", <<"2","0","3","5","5","0","0","f","4","4","7","1">>>>,
  <<"Card.div.element[11]@src/A.js", <<"4","3","9","a","8","3","6","0","0","d","4","b">>>>,
  <<"Card.div.element[12]@src/A.js", <<"9","2","b","a","c","2","4","3","1","6","8","5">>>>,
  <<"Card.div.element[13]@src/A.js", <<"d","2","7","6","f","e","4","8","9","b","5","d">>>>,
  <<"Card.div.element[14]@src/A.js", <<"e","a","4","3","2","3","f","8","0","5","d","f">>>>,
  <<"Card.div.element[15]@src/A.js", <<"3","3","9","d","f","2","a","7","f","9","c","1">>>>,
  <<"Card.span.element[0]@src/A.js", <<"7","9","8","a","8","9","c","7","c","9","6","a">>>>,
  <<"Card.span.element[1]@src/A.js", <<"6","9","a","d","b","d","6","4","7","3","1","a">>>>,
  <<"Card.span.element[2]@src/A.js", <<"1","3","6","3","c","3","7","2","a","7","6","0">>>>,
  <<"Card.span.element[3]@src/A.js", <<"c","3","e","0","6","5","b","9","b","8","9","2">>>>,
  <<"Card.span.element[4]@src/A.js", <<"5","a","4","6","8","2","a","b","8","2","7","9">>>>,
  <<"Card.span.element[5]@src/A.js", <<"0","6","4","9","1","b","5","c","0","3","c","0">>>>,
  <<"Card.span.element[6]@src/A.js", <<"e","f","0","1","6","f","2","6","7","8","f","3">>>>,
  <<"Card.span.element[7]@src/A.js", <<"a","6","0","4","9","e","b","0","5","d","f","8">>>>,
  <<"Card.span.element[8]@src/A.js", <<"4","7","b","8","7","7","6","8","c","2","8","2">>>>,
  <<"Card.span.element[9]@src/A.js", <<"1","6","9","6","a","b","4","5","6","a","3","f">>>>,
  <<"Card.span.element[10]@src/A.js", <<"a","b","6","f","0","d","c","d","c","9","8","c">>>>,
  <<"Card.span.element[11]@src/A.js", <<"6","e","4","6","3","2","1","6","3","0","1","a">>>>,
  <<"Card.span.element[12]@src/A.js", <<"7","3","1","6","9","c","c","0","1","f","5","b">>>>,
  <<"Card.span.element[13]@src/A.js", <<"e","d","a","b","8","6","0","3","2","2","a","a">>>>,
  <<"Card.span.element[14]@src/A.js", <<"4","6","4","c","4","4","0","c","c","7","f","a">>>>,
  <<"Card.span.element[15]@src/A.js", <<"5","e","4","6","0","3","4","3","b","9","9","e">>>>,
  <<"Card.Card.element[0]@src/A.js", <<"c","6","b","d","4","4","a","7","3","0","7","4">>>>,
  <<"Card.Card.element[1]@src/A.js", <<"7","5","7","8","a","5","7","2","3","c","8","1">>>>,
  <<"Card.Card.element[2]@src/A.js", <<"2","e","5","2","4","1","3","d","7","f","a","5">>>>,
  <<"Card.Card.element[3]@src/A.js", <<"f","e","b","9","5","f","5","8","5","d","4","c">>>>,
  <<"Card.Card.element[4]@src/A.js", <<"8","3","9","a","6","d","8","0","5","1","e","2">>>>,
  <<"Card.Card.element[5]@src/A.js", <<"b","8","6","7","2","6","1","e","a","b","c","c">>>>,
  <<"Card.Card.element[6]@src/A.js", <<"4","1","c","f","5","a","3","4","8","d","9","4">>>>,
  <<"Card.Card.element[7]@src/A.js", <<"b","f","7","3","d","f","7","1","4","6","d","9">>>>,
  <<"Card.Card.element[8]@src/A.js", <<"a","1","6","d","7","2","3","2","2","0","d","b">>>>,
  <<"Card.Card.element[9]@src/A.js", <<"0","a","7","2","2","e","3","2","0","2","7","f">>>>,
  <<"Card.Card.element[10]@src/A.js", <<"3","7","8","3","6","1","f","2","6","6","2","d">>>>,
  <<"Card.Card.element[11]@src/A.js", <<"6","6","b","7","c","1","b","f","4","e","d","b">>>>,
  <<"Card.Card.element[12]@src/A.js", <<"9","6","7","c","2","b","b","5","b","2","e","c">>>>,
  <<"Card.Card.element[13]@src/A.js", <<"f","c","c","0","2","3","7","1","3","d","e","a">>>>,
  <<"Card.Card.element[14]@src/A.js", <<"1","1","c","f","7","1","8","c","7","d","d","0">>>>,
  <<"Card.Card.element[15]@src/A.js", <<"e","8","e","c","9","6","1","3","7","6","b","6">>>>,
  <<"div.div.div.element[0]@src/A.js", <<"9","0","2","3","4","7","e","3","8","b","f","d">>>>,
  <<"div.div.div.element[1]@src/A.js", <<"4","6","5","8","8","b","2","c","f","0","f","8">>>>,
  <<"div.div.div.element[2]@src/A.js", <<"d","0","f","a","8","e","4","6","e","3","a","9">>>>,
  <<"div.div.div.element[3]@src/A.js", <<"b","0","b","e","3","1","3","4","4","3","7","0">>>>,
  <<"div.div.div.element[4]@src/A.js", <<"d","f","6","7","5","8","1","1","b","0","9","0">>>>,
  <<"div.div.div.element[5]@src/A.js", <<"2","9","e","8","9","2","5","8","2","a","6","c">>>>,
  <<"div.div.div.element[6]@src/A.js", <<"1","e","7","a","1","d","3","c","b","8","c","7">>>>,
  <<"div.div.div.element[7]@src/A.js", <<"7","f","b","9","6","1","8","a","1","8","b","1">>>>,
  <<"div.div.div.element[8]@src/A.js", <<"7","0","5","7","a","7","d","b","b","2","2","4">>>>,
  <<"div.div.div.element[9]@src/A.js", <<"0","8","0","4","e","b","3","2","6","7","9","c">>>>,
  <<"div.div.div.element[10]@src/A.js", <<"c","2","c","8","1","2","4","1","9","d","5","2">>>>,
  <<"div.div.div.element[11]@src/A.js", <<"0","d","1","8","c","8","f","9","5","4","4","d">>>>,
  <<"div.div.div.element[12]@src/A.js", <<"2","b","a","9","6","c","8","1","9","e","2","6">>>>,
  <<"div.div.div.element[13]@src/A.js", <<"9","c","2","b","6","4","e","c","f","f","a","5">>>>,
  <<"div.div.div.element[14]@src/A.js", <<"c","0","1","a","2","b","d","2","6","d","5","0">>>>,
  <<"div.div.div.element[15]@src/A.js", <<"a","3","6","d","e","f","d","0","a","d","5","4">>>>,
  <<"div.div.span.element[0]@src/A.js", <<"9","e","6","e","1","6","8","4","f","1","2","3">>>>,
  <<"div.div.span.element[1]@src/A.js", <<"4","e","9","a","4","4","d","0","b","4","2","6">>>>,
  <<"div.div.span.element[2]@src/A.js", <<"5","1","2","c","1","2","4","e","5","5","f","a">>>>,
  <<"div.div.span.element[3]@src/A.js", <<"8","0","4","8","f","5","d","e","f","8","4","6">>>>,
  <<"div.div.span.element[4]@src/A.js", <<"6","1","e","f","b","7","4","6","a","3","b","b">>>>,
  <<"div.div.span.element[5]@src/A.js", <<"4","c","c","c","5","7","d","1","e","9","6","0">>>>,
  <<"div.div.span.element[6]@src/A.js", <<"e","f","7","f","a","e","1","a","4","7","1","8">>>>,
  <<"div.div.span.element[7]@src/A.js", <<"0","a","7","5","c","8","4","1","4","5","1","e">>>>,
  <<"div.div.span.element[8]@src/A.js", <<"8","3","2","7","0","d","f","9","a","c","f","7">>>>,
  <<"div.div.span.element[9]@src/A.js", <<"a","7","2","f","d","3","4","8","8","1","0","7">>>>,
  <<"div.div.span.element[10]@src/A.js", <<"4","5","4","3","c","3","9","e","3","0","d","9">>>>,
  <<"div.div.span.element[11]@src/A.js", <<"3","8","4","5","a","1","f","a","7","c","c","0">>>>,
  <<"div.div.span.element[12]@src/A.js", <<"f","8","8","1","9","1","6","0","1","0","5","0">>>>,
  <<"div.div.span.element[13]@src/A.js", <<"1","2","0","6","8","2","b","c","f","b","e","c">>>>,
  <<"div.div.span.element[14]@src/A.js", <<"5","2","9","6","a","f","f","1","f","5","5","c">>>>,
  <<"div.div.span.element[15]@src/A.js", <<"6","2","2","1","e","c","6","a","d","3","8","a">>>>,
  <<"div.div.Card.element[0]@src/A.js", <<"2","a","c","1","1","7","6","a","3","d","4","0">>>>,
  <<"div.div.Card.element[1]@src/A.js", <<"d","e","7","b","e","e","c","b","0","f","0","9">>>>,
  <<"div.div.Card.element[2]@src/A.js", <<"5","1","5","8","f","3","b","6","d","1","1","0">>>>,
  <<"div.div.Card.element[3]@src/A.js", <<"a","b","c","f","b","0","5","3","9","1","1","d">>>>,
  <<"div.div.Card.element[4]@src/A.js", <<"1","2","7","8","7","d","2","e","5","2","c","2">>>>,
  <<"div.div.Card.element[5]@src/A.js", <<"b","c","0","d","2","9","d","7","3","3","3","b">>>>,
  <<"div.div.Card.element[6]@src/A.js", <<"5","1","6","4","2","1","b","4","c","8","c","f">>>>,
  <<"div.div.Card.element[7]@src/A.js", <<"e","9","e","2","2","8","8","f","b","4","0","5">>>>,
  <<"div.div.Card.element[8]@src/A.js", <<"e","6","4","c","c","c","6","3","4","8","1","8">>>>,
  <<"div.div.Card.element[9]@src/A.js", <<"f","f","e","0","8","4","f","d","c","5","1","2">>>>,
  <<"div.div.Card.element[10]@src/A.js", <<"7","e","5","8","3","a","1","2","9","4","b","0">>>>,
  <<"div.div.Card.element[11]@src/A.js", <<"3","c","8","4","6","6","4","9","c","6","9","b">>>>,
  <<"div.div.Card.element[12]@src/A.js", <<"b","6","3","e","0","2","2","3","d","3","0","7">>>>,
  <<"div.div.Card.element[13]@src/A.js", <<"d","5","8","9","d","8","7","7","0","b","2","b">>>>,
  <<"div.div.Card.element[14]@src/A.js", <<"2","9","9","2","2","e","9","6","f","d","3","a">>>>,
  <<"div.div.Card.element[15]@src/A.js", <<"8","2","0","4","5","5","9","4","4","c","8","6">>>>,
  <<"div.span.div.element[0]@src/A.js", <<"4","b","9","4","7","c","6","6","d","b","0","d">>>>,
  <<"div.span.div.element[1]@src/A.js", <<"a","f","a","e","5","f","6","8","9","5","b","4">>>>,
  <<"div.span.div.element[2]@src/A.js", <<"8","8","1","c","2","1","8","4","0","d","c","4">>>>,
  <<"div.span.div.element[3]@src/A.js", <<"7","3","3","9","0","7","7","b","6","3","1","4">>>>,
  <<"div.span.div.element[4]@src/A.js", <<"2","e","d","c","a","2","3","1","c","4","7","6">>>>,
  <<"div.span.div.element[5]@src/A.js", <<"2","8","0","e","a","1","7","e","2","d","0","0">>>>,
  <<"div.span.div.element[6]@src/A.js", <<"b","e","d","9","c","5","9","3","5","9","f","5">>>>,
  <<"div.span.div.element[7]@src/A.js", <<"7","2","b","7","0","7","9","6","d","f","7","9">>>>,
  <<"div.span.div.element[8]@src/A.js", <<"2","2","a","3","2","4","4","c","d","e","5","f">>>>,
  <<"div.span.div.element[9]@src/A.js", <<"2","4","5","1","1","3","2","b","c","d","d","b">>>>,
  <<"div.span.div.element[10]@src/A.js", <<"8","f","9","d","4","7","b","0","b","b","0","9">>>>,
  <<"div.span.div.element[11]@src/A.js", <<"f","4","c","9","c","a","2","4","c","8","2","8">>>>,
  <<"div.span.div.element[12]@src/A.js", <<"6","f","f","a","c","9","b","3","f","a","f","f">>>>,
  <<"div.span.div.element[13]@src/A.js", <<"0","3","5","d","6","0","e","d","4","a","7","e">>>>,
  <<"div.span.div.element[14]@src/A.js", <<"b","4","6","3","9","0","6","7","d","c","c","9">>>>,
  <<"div.span.div.element[15]@src/A.js", <<"0","8","4","a","1","8","7","d","1","9","5","2">>>>,
  <<"div.span.span.element[0]@src/A.js", <<"6","6","8","5","a","e","9","3","e","3","a","a">>>>,
  <<"div.span.span.element[1]@src/A.js", <<"5","f","5","d","6","4","3","e","c","a","6","6">>>>,
  <<"div.span.span.element[2]@src/A.js", <<"6","a","7","2","1","9","d","2","d","2","d","7">>>>,
  <<"div.span.span.element[3]@src/A.js", <<"9","9","7","9","d","9","3","3","5","2","4","2">>>>,
  <<"div.span.span.element[4]@src/A.js", <<"8","a","f","6","e","7","d","3","0","3","a","1">>>>,
  <<"div.span.span.element[5]@src/A.js", <<"6","b","3","7","d","5","7","6","2","9","c","b">>>>,
  <<"div.span.span.element[6]@src/A.js", <<"a","d","8","2","d","b","7","a","7","6","0","0">>>>,
  <<"div.span.span.element[7]@src/A.js", <<"2","2","4","8","4","2","e","b","2","6","4","d">>>>,
  <<"div.span.span.element[8]@src/A.js", <<"9","e","e","9","9","b","c","4","0","5","7","d">>>>,
  <<"div.span.span.element[9]@src/A.js", <<"3","2","b","5","b","c","e","4","3","4","5","a">>>>,
  <<"div.span.span.element[10]@src/A.js", <<"d","1","d","4","7","4","0","0","1","a","d","c">>>>,
  <<"div.span.span.element[11]@src/A.js", <<"0","b","d","b","a","3","b","0","6","7","f","b">>>>,
  <<"div.span.span.element[12]@src/A.js", <<"1","3","3","b","4","a","e","1","8","0","c","f">>>>,
  <<"div.span.span.element[13]@src/A.js", <<"a","d","4","b","a","e","c","e","a","8","6","a">>>>,
  <<"div.span.span.element[14]@src/A.js", <<"d","9","1","7","a","e","a","e","5","f","4","8">>>>,
  <<"div.span.span.element[15]@src/A.js", <<"3","5","9","1","5","1","e","2","1","f","6","e">>>>,
  <<"div.span.Card.element[0]@src/A.js", <<"d","3","4","b","3","2","0","b","7","d","e","d">>>>,
  <<"div.span.Card.element[1]@src/A.js", <<"1","0","7","e","2","1","2","c","2","e","0","8">>>>,
  <<"div.span.Card.element[2]@src/A.js", <<"4","e","1","0","d","5","0","f","f","5","3","7">>>>,
  <<"div.span.Card.element[3]@src/A.js", <<"0","5","6","b","7","2","f","1","2","d","8","5">>>>,
  <<"div.span.Card.element[4]@src/A.js", <<"d","c","e","d","c","9","6","0","1","9","d","9">>>>,
  <<"div.span.Card.element[5]@src/A.js", <<"e","4","c","0","e","2","f","3","4","4","5","c">>>>,
  <<"div.span.Card.element[6]@src/A.js", <<"5","d","3","b","9","9","0","6","2","8","6","0">>>>,
  <<"div.span.Card.element[7]@src/A.js", <<"f","b","4","b","e","3","9","9","0","3","8","2">>>>,
  <<"div.span.Card.element[8]@src/A.js", <<"f","3","5","0","9","b","a","e","e","3","9","1">>>>,
  <<"div.span.Card.element[9]@src/A.js", <<"9","3","4","7","7","6","1","8","0","a","a","6">>>>,
  <<"div.span.Card.element[10]@src/A.js", <<"a","0","0","8","8","4","2","b","a","e","e","b">>>>,
  <<"div.span.Card.element[11]@src/A.js", <<"1","4","e","2","7","8","2","d","0","2","2","9">>>>,
  <<"div.span.Card.element[12]@src/A.js", <<"c","2","7","a","a","5","9","2","7","c","e","0">>>>,
  <<"div.span.Card.element[13]@src/A.js", <<"2","b","7","8","5","4","f","7","4","8","a","f">>>>,
  <<"div.span.Card.element[14]@src/A.js", <<"e","b","c","b","d","d","2","6","f","3","e","1">>>>,
  <<"div.span.Card.element[15]@src/A.js", <<"2","9","2","9","c","a","f","0","1","b","7","c">>>>,
  <<"div.Card.div.element[0]@src/A.js", <<"8","5","8","d","c","7","6","2","3","f","8","2">>>>,
  <<"div.Card.div.element[1]@src/A.js", <<"5","c","6","5","e","5","3","4","0","3","9","b">>>>,
  <<"div.Card.div.element[2]@src/A.js", <<"f","6","9","8","7","9","1","c","0","a","5","0">>>>,
  <<"div.Card.div.element[3]@src/A.js", <<"e","4","d","4","b","a","1","8","9","4","7","5">>>>,
  <<"div.Card.div.element[4]@src/A.js", <<"b","f","e","3","e","b","a","1","4","e","b","8">>>>,
  <<"div.Card.div.element[5]@src/A.js", <<"6","4","2","7","e","7","0","4","5","0","8","3">>>>,
  <<"div.Card.div.element[6]@src/A.js", <<"4","9","1","6","9","a","8","7","f","2","0","4">>>>,
  <<"div.Card.div.element[7]@src/A.js", <<"1","4","3","b","8","d","a","8","6","6","2","4">>>>,
  <<"div.Card.div.element[8]@src/A.js", <<"9","d","c","3","6","a","b","b","0","2","5","9">>>>,
  <<"div.Card.div.element[9]@src/A.js", <<"8","9","5","5","c","3","f","a","c","f","6","3">>>>,
  <<"div.Card.div.element[10]@src/A.js", <<"9","1","1","6","6","e","1","2","3","7","5","6">>>>,
  <<"div.Card.div.element[11]@src/A.js", <<"8","2","2","1","7","8","7","f","6","3","e","6">>>>,
  <<"div.Card.div.element[12]@src/A.js", <<"7","e","a","7","a","a","5","1","d","0","4","f">>>>,
  <<"div.Card.div.element[13]@src/A.js", <<"5","3","6","4","e","c","c","4","1","9","4","a">>>>,
  <<"div.Card.div.element[14]@src/A.js", <<"7","4","d","7","1","5","5","6","7","a","d","1">>>>,
  <<"div.Card.div.element[15]@src/A.js", <<"0","0","4","0","f","2","2","0","5","e","0","4">>>>,
  <<"div.Card.span.element[0]@src/A.js", <<"0","f","2","1","6","5","6","7","a","8","f","d">>>>,
  <<"div.Card.span.element[1]@src/A.js", <<"2","3","4","7","2","a","a","b","c","6","c","3">>>>,
  <<"div.Card.span.element[2]@src/A.js", <<"7","9","f","f","3","7","5","8","1","6","b","e">>>>,
  <<"div.Card.span.element[3]@src/A.js", <<"3","4","c","a","8","c","3","5","2","f","d","9">>>>,
  <<"div.Card.span.element[4]@src/A.js", <<"1","4","5","e","7","a","0","c","a","d","e","1">>>>,
  <<"div.Card.span.element[5]@src/A.js", <<"c","3","2","1","0","2","2","d","a","5","c","0">>>>,
  <<"div.Card.span.element[6]@src/A.js", <<"7","5","3","c","3","e","3","8","7","9","1","8">>>>,
  <<"div.Card.span.element[7]@src/A.js", <<"c","0","6","6","b","5","c","8","9","e","a","4">>>>,
  <<"div.Card.span.element[8]@src/A.js", <<"3","7","3","3","e","3","0","a","6","4","3","9">>>>,
  <<"div.Card.span.element[9]@src/A.js", <<"d","1","d","6","0","e","1","a","8","d","2","1">>>>,
  <<"div.Card.span.element[10]@src/A.js", <<"6","6","a","6","7","8","d","c","4","1","b","d">>>>,
  <<"div.Card.span.element[11]@src/A.js", <<"9","6","b","e","5","3","0","d","9","6","5","2">>>>,
  <<"div.Card.span.element[12]@src/A.js", <<"a","5","d","6","b","d","6","1","d","f","f","8">>>>,
  <<"div.Card.span.element[13]@src/A.js", <<"6","4","e","f","1","0","c","0","4","d","6","1">>>>,
  <<"div.Card.span.element[14]@src/A.js", <<"c","1","f","0","1","7","a","b","3","a","2","3">>>>,
  <<"div.Card.span.element[15]@src/A.js", <<"2","7","9","c","b","4","7","5","7","3","b","a">>>>,
  <<"div.Card.Card.element[0]@src/A.js", <<"a","8","6","d","d","0","6","7","2","c","c","7">>>>,
  <<"div.Card.Card.element[1]@src/A.js", <<"3","7","d","b","b","b","4","b","a","7","a","7">>>>,
  <<"div.Card.Card.element[2]@src/A.js", <<"f","f","8","f","4","9","4","9","c","1","e","f">>>>,
  <<"div.Card.Card.element[3]@src/A.js", <<"4","1","9","a","2","6","b","8","0","2","1","f">>>>,
  <<"div.Card.Card.element[4]@src/A.js", <<"9","c","e","1","2","6","a","8","d","6","1","7">>>>,
  <<"div.Card.Card.element[5]@src/A.js", <<"b","2","5","5","6","3","0","6","0","0","e","8">>>>,
  <<"div.Card.Card.element[6]@src/A.js", <<"d","a","c","3","6","6","1","1","a","7","0","5">>>>,
  <<"div.Card.Card.element[7]@src/A.js", <<"c","7","2","a","1","1","e","d","6","9","6","5">>>>,
  <<"div.Card.Card.element[8]@src/A.js", <<"2","0","0","f","2","9","f","d","c","e","1","d">>>>,
  <<"div.Card.Card.element[9]@src/A.js", <<"2","6","b","1","8","9","6","0","b","b","9","e">>>>,
  <<"div.Card.Card.element[10]@src/A.js", <<"d","3","2","0","f","b","b","c","5","c","e","e">>>>,
  <<"div.Card.Card.element[11]@src/A.js", <<"6","c","3","8","3","3","4","a","2","b","c","6">>>>,
  <<"div.Card.Card.element[12]@src/A.js", <<"a","0","3","d","2","3","2","d","6","c","4","6">>>>,
  <<"div.Card.Card.element[13]@src/A.js", <<"3","c","4","b","c","9","f","f","7","1","7","8">>>>,
  <<"div.Card.Card.element[14]@src/A.js", <<"c","4","8","d","a","a","2","4","4","f","9","1">>>>,
  <<"div.Card.Card.element[15]@src/A.js", <<"e","a","9","8","c","5","9","5","2","a","a","6">>>>,
  <<"span.div.div.element[0]@src/A.js", <<"7","a","f","9","8","9","f","8","7","5","5","4">>>>,
  <<"span.div.div.element[1]@src/A.js", <<"5","8","8","6","e","4","f","9","3","9","a","1">>>>,
  <<"span.div.div.element[2]@src/A.js", <<"9","c","8","4","4","a","7","c","7","a","a","7">>>>,
  <<"span.div.div.element[3]@src/A.js", <<"4","9","2","f","1","c","d","d","d","7","7","6">>>>,
  <<"span.div.div.element[4]@src/A.js", <<"3","d","0","c","b","f","7","7","3","b","d","4">>>>,
  <<"span.div.div.element[5]@src/A.js", <<"7","2","4","a","d","1","b","f","c","7","4","4">>>>,
  <<"span.div.div.element[6]@src/A.js", <<"e","b","8","d","3","1","2","b","2","a","3","9">>>>,
  <<"span.div.div.element[7]@src/A.js", <<"4","0","f","5","1","8","d","5","7","8","5","9">>>>,
  <<"span.div.div.element[8]@src/A.js", <<"5","a","e","4","d","b","1","c","9","f","7","7">>>>,
  <<"span.div.div.element[9]@src/A.js", <<"a","1","0","3","d","1","7","b","b","0","7","c">>>>,
  <<"span.div.div.element[10]@src/A.js", <<"d","4","f","0","9","1","8","f","0","b","b","6">>>>,
  <<"span.div.div.element[11]@src/A.js", <<"9","2","9","0","8","3","4","1","1","6","a","5">>>>,
  <<"span.div.div.element[12]@src/A.js", <<"3","f","b","4","8","b","1","d","0","f","9","a">>>>,
  <<"span.div.div.element[13]@src/A.js", <<"8","c","6","6","6","3","d","5","e","d","e","c">>>>,
  <<"span.div.div.element[14]@src/A.js", <<"1","e","7","6","3","8","b","f","8","f","f","b">>>>,
  <<"span.div.div.element[15]@src/A.js", <<"e","d","3","c","5","e","7","d","9","4","f","b">>>>,
  <<"span.div.span.element[0]@src/A.js", <<"9","b","5","e","7","8","9","0","6","1","8","2">>>>,
  <<"span.div.span.element[1]@src/A.js", <<"a","1","8","2","a","9","2","8","f","a","1","8">>>>,
  <<"span.div.span.element[2]@src/A.js", <<"5","d","b","5","8","f","c","1","c","8","a","9">>>>,
  <<"span.div.span.element[3]@src/A.js", <<"a","e","c","0","7","c","6","c","1","c","a","8">>>>,
  <<"span.div.span.element[4]@src/A.js", <<"f","5","3","3","7","6","4","b","f","9","c","b">>>>,
  <<"span.div.span.element[5]@src/A.js", <<"3","2","7","3","4","1","9","a","c","d","c","3">>>>,
  <<"span.div.span.element[6]@src/A.js", <<"5","9","5","3","2","1","5","7","0","8","9","3">>>>,
  <<"span.div.span.element[7]@src/A.js", <<"3","7","7","e","c","0","a","6","1","0","8","e">>>>,
  <<"span.div.span.element[8]@src/A.js", <<"5","0","c","7","6","a","8","0","d","0","5","8">>>>,
  <<"span.div.span.element[9]@src/A.js", <<"0","2","b","8","a","7","a","b","a","7","6","0">>>>,
  <<"span.div.span.element[10]@src/A.js", <<"a","9","5","1","f","3","6","8","d","a","d","e">>>>,
  <<"span.div.span.element[11]@src/A.js", <<"d","b","a","e","c","2","3","3","2","9","8","1">>>>,
  <<"span.div.span.element[12]@src/A.js", <<"a","b","6","a","2","c","0","f","3","f","f","a">>>>,
  <<"span.div.span.element[13]@src/A.js", <<"6","8","f","5","2","6","b","e","8","3","8","2">>>>,
  <<"span.div.span.element[14]@src/A.js", <<"9","3","e","8","a","d","c","e","7","4","1","d">>>>,
  <<"span.div.span.element[15]@src/A.js", <<"5","6","5","2","0","3","f","e","d","a","8","7">>>>,
  <<"span.div.Card.element[0]@src/A.js", <<"8","0","6","0","5","8","4","4","a","3","f","e">>>>,
  <<"span.div.Card.element[1]@src/A.js", <<"2","7","d","8","8","c","e","a","7","4","4","d">>>>,
  <<"span.div.Card.element[2]@src/A.js", <<"8","1","5","b","9","2","2","4","a","f","d","b">>>>,
  <<"span.div.Card.element[3]@src/A.js", <<"b","0","3","a","a","2","a","c","f","5","8","8">>>>,
  <<"span.div.Card.element[4]@src/A.js", <<"9","a","0","4","7","f","e","2","4","5","0","d">>>>,
  <<"span.div.Card.element[5]@src/A.js", <<"8","6","b","c","4","0","e","7","5","8","b","d">>>>,
  <<"span.div.Card.element[6]@src/A.js", <<"6","d","4","f","6","f","2","2","3","1","b","f">>>>,
  <<"span.div.Card.element[7]@src/A.js", <<"2","8","5","3","f","8","a","6","7","c","c","1">>>>,
  <<"span.div.Card.element[8]@src/A.js", <<"6","e","3","5","0","e","7","6","5","5","a","3">>>>,
  <<"span.div.Card.element[9]@src/A.js", <<"a","f","d","2","1","a","a","e","b","2","9","f">>>>,
  <<"span.div.Card.element[10]@src/A.js", <<"a","b","6","8","7","5","a","9","8","5","f","a">>>>,
  <<"span.div.Card.element[11]@src/A.js", <<"3","b","8","2","1","0","1","8","4","a","8","0">>>>,
  <<"span.div.Card.element[12]@src/A.js", <<"7","e","b","5","9","c","6","b","7","f","6","d">>>>,
  <<"span.div.Card.element[13]@src/A.js", <<"c","7","b","e","2","c","8","e","0","4","d","c">>>>,
  <<"span.div.Card.element[14]@src/A.js", <<"3","f","1","d","a","7","2","7","2","5","6","1">>>>,
  <<"span.div.Card.element[15]@src/A.js", <<"c","8","3","8","9","e","1","2","d","4","2","8">>>>,
  <<"span.span.div.element[0]@src/A.js", <<"8","f","0","6","8","d","b","9","9","b","2","a">>>>,
  <<"span.span.div.element[1]@src/A.js", <<"6","5","e","1","a","a","5","3","3","b","e","4">>>>,
  <<"span.span.div.element[2]@src/A.js", <<"d","8","7","3","0","c","2","7","b","1","a","0">>>>,
  <<"span.span.div.element[3]@src/A.js", <<"9","9","5","c","a","b","a","f","1","8","a","f">>>>,
  <<"span.span.div.element[4]@src/A.js", <<"9","e","9","8","7","5","b","8","7","7","9","1">>>>,
  <<"span.span.div.element[5]@src/A.js", <<"6","b","5","a","4","3","a","f","2","d","9","7">>>>,
  <<"span.span.div.element[6]@src/A.js", <<"a","2","4","7","2","8","d","a","2","1","4","2">>>>,
  <<"span.span.div.element[7]@src/A.js", <<"e","b","4","b","6","c","6","0","4","5","0","c">>>>,
  <<"span.span.div.element[8]@src/A.js", <<"5","5","7","d","c","6","a","c","3","e","0","1">>>>,
  <<"span.span.div.element[9]@src/A.js", <<"9","0","5","1","b","5","4","7","5","a","0","2">>>>,
  <<"span.span.div.element[10]@src/A.js", <<"f","8","8","e","7","d","e","c","1","a","d","7">>>>,
  <<"span.span.div.element[11]@src/A.js", <<"1","4","5","5","b","e","d","5","0","c","a","b">>>>,
  <<"span.span.div.element[12]@src/A.js", <<"3","b","d","2","0","a","2","2","a","0","6","1">>>>,
  <<"span.span.div.element[13]@src/A.js", <<"0","b","6","6","e","d","4","3","c","1","c","1">>>>,
  <<"span.span.div.element[14]@src/A.js", <<"b","d","b","7","e","a","9","8","6","1","a","0">>>>,
  <<"span.span.div.element[15]@src/A.js", <<"8","3","3","6","f","a","1","5","4","f","c","1">>>>,
  <<"span.span.span.element[0]@src/A.js", <<"c","1","c","6","0","8","b","8","1","8","9","d">>>>,
  <<"span.span.span.element[1]@src/A.js", <<"5","9","f","d","7","5","6","4","c","d","9","8">>>>,
  <<"span.span.span.element[2]@src/A.js", <<"f","3","1","2","b","b","7","d","e","b","c","1">>>>,
  <<"span.span.span.element[3]@src/A.js", <<"4","7","4","1","a","a","3","d","3","6","e","c">>>>,
  <<"span.span.span.element[4]@src/A.js", <<"7","0","3","5","1","b","9","7","f","a","8","f">>>>,
  <<"span.span.span.element[5]@src/A.js", <<"6","4","3","c","e","5","c","6","e","d","b","f">>>>,
  <<"span.span.span.element[6]@src/A.js", <<"b","7","6","4","5","a","5","2","e","d","6","a">>>>,
  <<"span.span.span.element[7]@src/A.js", <<"6","0","8","2","e","c","a","9","4","9","f","3">>>>,
  <<"span.span.span.element[8]@src/A.js", <<"b","7","0","6","6","0","4","2","b","1","3","2">>>>,
  <<"span.span.span.element[9]@src/A.js", <<"5","3","6","0","b","4","e","1","c","f","f","0">>>>,
  <<"span.span.span.element[10]@src/A.js", <<"b","9","7","a","d","1","0","2","a","6","d","8">>>>,
  <<"span.span.span.element[11]@src/A.js", <<"b","7","4","e","d","7","3","6","f","7","c","1">>>>,
  <<"span.span.span.element[12]@src/A.js", <<"6","f","8","0","6","7","2","1","a","8","c","a">>>>,
  <<"span.span.span.element[13]@src/A.js", <<"3","1","2","9","d","9","0","7","f","5","b","5">>>>,
  <<"span.span.span.element[14]@src/A.js", <<"c","6","d","0","e","e","e","4","1","2","a","d">>>>,
  <<"span.span.span.element[15]@src/A.js", <<"0","f","0","1","f","c","7","d","a","5","a","4">>>>,
  <<"span.span.Card.element[0]@src/A.js", <<"1","b","7","3","c","b","5","f","7","d","d","4">>>>,
  <<"span.span.Card.element[1]@src/A.js", <<"d","6","7","d","7","b","7","f","0","5","a","9">>>>,
  <<"span.span.Card.element[2]@src/A.js", <<"f","2","7","0","a","d","0","5","8","a","9","b">>>>,
  <<"span.span.Card.element[3]@src/A.js", <<"1","0","0","3","9","a","7","e","5","9","2","0">>>>,
  <<"span.span.Card.element[4]@src/A.js", <<"3","9","d","f","c","6","c","c","9","5","9","5">>>>,
  <<"span.span.Card.element[5]@src/A.js", <<"4","f","3","5","3","2","e","7","a","e","e","3">>>>,
  <<"span.span.Card.element[6]@src/A.js", <<"b","4","c","a","e","7","c","e","7","1","d","1">>>>,
  <<"span.span.Card.element[7]@src/A.js", <<"e","c","e","9","d","0","f","a","b","a","0","5">>>>,
  <<"span.span.Card.element[8]@src/A.js", <<"6","1","8","6","9","7","1","1","4","a","9","d">>>>,
  <<"span.span.Card.element[9]@src/A.js", <<"d","2","7","8","a","4","0","d","8","b","0","f">>>>,
  <<"span.span.Card.element[10]@src/A.js", <<"0","8","5","f","d","5","d","c","9","2","2","4">>>>,
  <<"span.span.Card.element[11]@src/A.js", <<"7","2","1","5","3","2","b","2","b","c","4","2">>>>,
  <<"span.span.Card.element[12]@src/A.js", <<"1","d","5","2","f","2","9","6","8","b","b","5">>>>,
  <<"span.span.Card.element[13]@src/A.js", <<"7","a","f","4","f","4","b","0","f","1","a","c">>>>,
  <<"span.span.Card.element[14]@src/A.js", <<"f","3","4","1","a","e","6","3","8","c","a","7">>>>,
  <<"span.span.Card.element[15]@src/A.js", <<"f","6","9","a","9","9","3","0","1","a","9","9">>>>,
  <<"span.Card.div.element[0]@src/A.js", <<"0","6","d","e","4","2","d","9","9","7","c","e">>>>,
  <<"span.Card.div.element[1]@src/A.js", <<"2","e","4","f","b","7","9","0","8","f","8","2">>>>,
  <<"span.Card.div.element[2]@src/A.js", <<"b","f","a","a","9","1","4","8","3","9","5","5">>>>,
  <<"span.Card.div.element[3]@src/A.js", <<"5","8","b","5","c","c","6","d","7","3","9","e">>>>,
  <<"span.Card.div.element[4]@src/A.js", <<"c","b","d","e","4","2","6","3","d","9","3","e">>>>,
  <<"span.Card.div.element[5]@src/A.js", <<"2","8","e","5","5","2","9","1","8","1","e","f">>>>,
  <<"span.Card.div.element[6]@src/A.js", <<"0","8","0","6","d","1","0","8","e","8","8","e">>>>,
  <<"span.Card.div.element[7]@src/A.js", <<"b","e","7","f","5","0","5","3","2","5","c","8">>>>,
  <<"span.Card.div.element[8]@src/A.js", <<"a","8","b","c","e","5","b","a","d","7","4","d">>>>,
  <<"span.Card.div.element[9]@src/A.js", <<"c","d","b","b","6","b","a","2","e","b","7","7">>>>,
  <<"span.Card.div.element[10]@src/A.js", <<"c","2","8","a","e","8","b","e","5","d","4","6">>>>,
  <<"span.Card.div.element[11]@src/A.js", <<"2","6","c","a","4","d","9","4","d","2","6","9">>>>,
  <<"span.Card.div.element[12]@src/A.js", <<"e","1","3","9","b","b","1","7","c","4","a","e">>>>,
  <<"span.Card.div.element[13]@src/A.js", <<"8","4","2","0","c","9","8","9","3","8","9","0">>>>,
  <<"span.Card.div.element[14]@src/A.js", <<"e","2","9","4","3","2","3","4","3","4","4","d">>>>,
  <<"span.Card.div.element[15]@src/A.js", <<"1","e","4","5","7","f","4","5","2","f","2","2">>>>,
  <<"span.Card.span.element[0]@src/A.js", <<"e","4","2","a","d","f","1","6","4","b","2","6">>>>,
  <<"span.Card.span.element[1]@src/A.js", <<"f","d","7","6","6","b","f","d","1","1","5","8">>>>,
  <<"span.Card.span.element[2]@src/A.js", <<"d","e","c","2","c","0","5","c","5","5","3","3">>>>,
  <<"span.Card.span.element[3]@src/A.js", <<"5","1","b","c","a","4","2","5","0","b","7","5">>>>,
  <<"span.Card.span.element[4]@src/A.js", <<"b","c","5","0","1","2","b","f","d","9","5","9">>>>,
  <<"span.Card.span.element[5]@src/A.js", <<"2","f","2","5","e","b","3","e","6","a","8","b">>>>,
  <<"span.Card.span.element[6]@src/A.js", <<"6","d","0","7","6","c","5","c","d","7","8","1">>>>,
  <<"span.Card.span.element[7]@src/A.js", <<"6","c","9","e","8","0","9","5","6","9","7","3">>>>,
  <<"span.Card.span.element[8]@src/A.js", <<"b","d","d","d","3","7","d","1","5","9","8","2">>>>,
  <<"span.Card.span.element[9]@src/A.js", <<"7","f","d","0","a","9","5","f","c","8","2","1">>>>,
  <<"span.Card.span.element[10]@src/A.js", <<"9","7","c","9","9","1","6","9","8","a","f","7">>>>,
  <<"span.Card.span.element[11]@src/A.js", <<"f","a","c","b","2","2","7","2","5","5","1","d">>>>,
  <<"span.Card.span.element[12]@src/A.js", <<"6","b","0","7","4","7","1","1","1","1","a","0">>>>,
  <<"span.Card.span.element[13]@src/A.js", <<"2","8","c","9","3","4","5","5","6","3","2","f">>>>,
  <<"span.Card.span.element[14]@src/A.js", <<"5","5","2","d","a","2","7","f","9","f","f","0">>>>,
  <<"span.Card.span.element[15]@src/A.js", <<"1","a","4","7","6","5","8","8","5","0","3","3">>>>,
  <<"span.Card.Card.element[0]@src/A.js", <<"b","b","a","8","b","f","7","6","e","9","7","1">>>>,
  <<"span.Card.Card.element[1]@src/A.js", <<"c","9","2","b","5","f","5","4","6","3","e","b">>>>,
  <<"span.Card.Card.element[2]@src/A.js", <<"8","e","4","2","2","b","3","8","1","4","7","8">>>>,
  <<"span.Card.Card.element[3]@src/A.js", <<"b","f","8","9","c","4","a","e","b","6","e","a">>>>,
  <<"span.Card.Card.element[4]@src/A.js", <<"d","6","1","f","4","5","2","5","2","f","6","3">>>>,
  <<"span.Card.Card.element[5]@src/A.js", <<"6","0","8","8","0","5","5","4","9","c","8","3">>>>,
  <<"span.Card.Card.element[6]@src/A.js", <<"3","d","c","3","7","c","b","f","b","5","1","1">>>>,
  <<"span.Card.Card.element[7]@src/A.js", <<"b","5","7","b","1","7","f","e","a","3","6","5">>>>,
  <<"span.Card.Card.element[8]@src/A.js", <<"7","b","f","9","1","6","0","3","2","3","b","9">>>>,
  <<"span.Card.Card.element[9]@src/A.js", <<"8","c","1","d","3","d","9","6","d","c","1","f">>>>,
  <<"span.Card.Card.element[10]@src/A.js", <<"6","b","4","5","5","f","c","f","0","c","5","3">>>>,
  <<"span.Card.Card.element[11]@src/A.js", <<"a","5","6","b","f","9","e","c","9","5","1","0">>>>,
  <<"span.Card.Card.element[12]@src/A.js", <<"e","4","3","f","8","9","9","e","b","5","f","6">>>>,
  <<"span.Card.Card.element[13]@src/A.js", <<"2","9","a","8","9","8","a","8","8","0","9","a">>>>,
  <<"span.Card.Card.element[14]@src/A.js", <<"4","1","9","5","8","a","2","7","4","c","8","c">>>>,
  <<"span.Card.Card.element[15]@src/A.js", <<"e","d","e","7","9","c","4","5","6","9","8","2">>>>,
  <<"Card.div.div.element[0]@src/A.js", <<"c","a","7","d","4","d","6","f","1","e","1","7">>>>,
  <<"Card.div.div.element[1]@src/A.js", <<"e","1","2","5","d","e","3","8","1","7","6","0">>>>,
  <<"Card.div.div.element[2]@src/A.js", <<"3","1","8","0","2","3","2","a","3","b","e","b">>>>,
  <<"Card.div.div.element[3]@src/A.js", <<"3","6","1","8","9","b","f","4","c","7","3","b">>>>,
  <<"Card.div.div.element[4]@src/A.js", <<"b","d","b","4","3","a","d","b","0","8","e","0">>>>,
  <<"Card.div.div.element[5]@src/A.js", <<"9","f","1","c","1","9","1","c","4","5","9","e">>>>,
  <<"Card.div.div.element[6]@src/A.js", <<"8","0","8","5","3","2","6","8","e","0","4","3">>>>,
  <<"Card.div.div.element[7]@src/A.js", <<"2","b","b","2","9","9","a","3","6","b","0","3">>>>,
  <<"Card.div.div.element[8]@src/A.js", <<"9","6","7","1","f","8","7","8","f","7","2","e">>>>,
  <<"Card.div.div.element[9]@src/A.js", <<"0","6","f","9","9","4","6","d","9","0","e","8">>>>,
  <<"Card.div.div.element[10]@src/A.js", <<"3","4","9","1","4","f","c","a","0","4","6","f">>>>,
  <<"Card.div.div.element[11]@src/A.js", <<"e","2","6","4","a","5","6","2","5","1","d","8">>>>,
  <<"Card.div.div.element[12]@src/A.js", <<"a","a","6","4","9","0","1","c","7","7","f","6">>>>,
  <<"Card.div.div.element[13]@src/A.js", <<"c","8","d","7","6","d","c","b","7","2","8","a">>>>,
  <<"Card.div.div.element[14]@src/A.js", <<"c","8","a","5","e","4","c","e","7","f","1","3">>>>,
  <<"Card.div.div.element[15]@src/A.js", <<"a","c","1","1","8","8","c","1","e","c","3","d">>>>,
  <<"Card.div.span.element[0]@src/A.js", <<"9","3","8","b","2","6","2","9","d","0","a","1">>>>,
  <<"Card.div.span.element[1]@src/A.js", <<"2","8","c","c","0","7","7","8","9","e","2","2">>>>,
  <<"Card.div.span.element[2]@src/A.js", <<"9","6","0","6","0","9","1","c","2","4","3","b">>>>,
  <<"Card.div.span.element[3]@src/A.js", <<"2","8","2","d","6","2","7","e","4","a","3","6">>>>,
  <<"Card.div.span.element[4]@src/A.js", <<"e","4","2","2","b","5","1","2","7","a","f","f">>>>,
  <<"Card.div.span.element[5]@src/A.js", <<"a","e","d","d","e","8","e","0","6","5","d","b">>>>,
  <<"Card.div.span.element[6]@src/A.js", <<"e","2","c","b","5","4","8","c","e","b","4","c">>>>,
  <<"Card.div.span.element[7]@src/A.js", <<"1","6","6","7","c","2","2","a","1","c","7","4">>>>,
  <<"Card.div.span.element[8]@src/A.js", <<"1","c","7","0","e","e","2","9","a","9","4","b">>>>,
  <<"Card.div.span.element[9]@src/A.js", <<"7","7","4","c","5","7","c","3","1","6","2","1">>>>,
  <<"Card.div.span.element[10]@src/A.js", <<"9","c","9","2","c","7","9","2","4","9","a","7">>>>,
  <<"Card.div.span.element[11]@src/A.js", <<"3","a","3","f","6","7","d","c","9","0","d","1">>>>,
  <<"Card.div.span.element[12]@src/A.js", <<"b","e","8","2","d","3","c","8","1","d","9","f">>>>,
  <<"Card.div.span.element[13]@src/A.js", <<"a","8","d","4","0","6","f","2","5","9","3","4">>>>,
  <<"Card.div.span.element[14]@src/A.js", <<"3","c","9","4","1","c","6","c","8","1","4","f">>>>,
  <<"Card.div.span.element[15]@src/A.js", <<"f","3","c","f","8","5","c","d","0","b","6","d">>>>,
  <<"Card.div.Card.element[0]@src/A.js", <<"7","6","1","5","a","f","2","f","e","8","e","d">>>>,
  <<"Card.div.Card.element[1]@src/A.js", <<"e","7","0","4","1","1","a","a","d","8","2","d">>>>,
  <<"Card.div.Card.element[2]@src/A.js", <<"b","6","9","d","a","7","a","9","f","8","1","3">>>>,
  <<"Card.div.Card.element[3]@src/A.js", <<"0","4","f","e","8","a","7","a","e","4","1","4">>>>,
  <<"Card.div.Card.element[4]@src/A.js", <<"8","1","e","a","8","0","8","f","a","6","8","1">>>>,
  <<"Card.div.Card.element[5]@src/A.js", <<"e","b","8","f","7","e","8","8","1","3","9","9">>>>,
  <<"Card.div.Card.element[6]@src/A.js", <<"f","8","3","9","b","4","1","8","c","9","5","8">>>>,
  <<"Card.div.Card.element[7]@src/A.js", <<"c","b","d","a","6","7","3","e","a","0","d","e">>>>,
  <<"Card.div.Card.element[8]@src/A.js", <<"2","c","0","c","7","e","5","6","b","3","1","6">>>>,
  <<"Card.div.Card.element[9]@src/A.js", <<"3","8","f","a","f","7","4","d","e","1","0","b">>>>,
  <<"Card.div.Card.element[10]@src/A.js", <<"2","8","5","8","2","f","d","a","c","d","e","d">>>>,
  <<"Card.div.Card.element[11]@src/A.js", <<"0","c","f","2","1","5","9","f","a","4","b","a">>>>,
  <<"Card.div.Card.element[12]@src/A.js", <<"1","b","0","c","e","e","f","c","5","6","7","f">>>>,
  <<"Card.div.Card.element[13]@src/A.js", <<"a","d","5","0","8","1","8","4","6","0","f","7">>>>,
  <<"Card.div.Card.element[14]@src/A.js", <<"3","4","3","2","9","a","5","d","8","6","6","4">>>>,
  <<"Card.div.Card.element[15]@src/A.js", <<"2","f","d","a","6","9","4","f","3","e","a","7">>>>,
  <<"Card.span.div.element[0]@src/A.js", <<"3","a","2","0","5","c","9","1","8","3","3","5">>>>,
  <<"Card.span.div.element[1]@src/A.js", <<"f","4","1","5","0","7","c","5","7","f","1","f">>>>,
  <<"Card.span.div.element[2]@src/A.js", <<"a","d","2","6","0","2","e","3","0","2","b","8">>>>,
  <<"Card.span.div.element[3]@src/A.js", <<"4","3","c","6","7","b","b","c","5","1","2","d">>>>,
  <<"Card.span.div.element[4]@src/A.js", <<"4","c","1","7","3","0","7","4","7","6","e","7">>>>,
  <<"Card.span.div.element[5]@src/A.js", <<"0","6","b","6","9","5","a","e","2","0","f","8">>>>,
  <<"Card.span.div.element[6]@src/A.js", <<"5","5","6","8","1","d","3","f","5","9","9","9">>>>,
  <<"Card.span.div.element[7]@src/A.js", <<"4","d","5","0","a","a","c","d","0","2","2","f">>>>,
  <<"Card.span.div.element[8]@src/A.js", <<"5","8","d","5","5","3","0","a","b","7","6","c">>>>,
  <<"Card.span.div.element[9]@src/A.js", <<"6","1","6","1","1","1","a","e","2","7","4","7">>>>,
  <<"Card.span.div.element[10]@src/A.js", <<"9","7","4","6","9","4","e","2","2","9","a","1">>>>,
  <<"Card.span.div.element[11]@src/A.js", <<"4","6","7","5","c","d","8","2","0","9","f","2">>>>,
  <<"Card.span.div.element[12]@src/A.js", <<"4","8","e","d","6","5","7","2","c","8","2","a">>>>,
  <<"Card.span.div.element[13]@src/A.js", <<"4","5","6","c","3","5","e","2","0","7","9","8">>>>,
  <<"Card.span.div.element[14]@src/A.js", <<"d","8","9","6","3","5","7","1","9","f","a","1">>>>,
  <<"Card.span.div.element[15]@src/A.js", <<"9","1","9","0","e","d","b","d","3","f","b","4">>>>,
  <<"Card.span.span.element[0]@src/A.js", <<"3","1","9","f","f","a","6","1","b","b","1","1">>>>,
  <<"Card.span.span.element[1]@src/A.js", <<"b","f","4","0","9","7","9","5","a","f","1","f">>>>,
  <<"Card.span.span.element[2]@src/A.js", <<"3","b","f","b","0","3","d","9","e","7","4","2">>>>,
  <<"Card.span.span.element[3]@src/A.js", <<"c","c","a","8","d","0","4","9","4","e","1","d">>>>,
  <<"Card.span.span.element[4]@src/A.js", <<"a","c","a","2","a","9","b","c","d","5","0","f">>>>,
  <<"Card.span.span.element[5]@src/A.js", <<"5","3","a","f","f","a","b","9","9","4","d","e">>>>,
  <<"Card.span.span.element[6]@src/A.js", <<"7","b","7","9","3","3","f","c","e","0","f","e">>>>,
  <<"Card.span.span.element[7]@src/A.js", <<"e","a","e","5","e","c","4","c","9","7","2","a">>>>,
  <<"Card.span.span.element[8]@src/A.js", <<"d","2","6","2","a","e","c","1","6","b","f","e">>>>,
  <<"Card.span.span.element[9]@src/A.js", <<"8","6","1","4","0","1","0","9","5","9","2","3">>>>,
  <<"Card.span.span.element[10]@src/A.js", <<"9","a","6","2","c","0","6","f","6","e","e","6">>>>,
  <<"Card.span.span.element[11]@src/A.js", <<"6","4","d","0","6","9","c","a","8","e","9","0">>>>,
  <<"Card.span.span.element[12]@src/A.js", <<"7","f","e","d","d","0","b","9","b","c","e","b">>>>,
  <<"Card.span.span.element[13]@src/A.js", <<"0","e","9","7","0","1","3","2","5","6","7","1">>>>,
  <<"Card.span.span.element[14]@src/A.js", <<"7","7","2","c","5","a","f","8","8","a","2","f">>>>,
  <<"Card.span.span.element[15]@src/A.js", <<"2","d","9","8","a","7","d","a","5","0","d","f">>>>,
  <<"Card.span.Card.element[0]@src/A.js", <<"a","b","5","3","a","f","f","5","d","a","1","e">>>>,
  <<"Card.span.Card.element[1]@src/A.js", <<"1","b","3","5","1","3","8","7","3","d","c","f">>>>,
  <<"Card.span.Card.element[2]@src/A.js", <<"2","5","4","7","9","d","b","f","2","7","c","6">>>>,
  <<"Card.span.Card.element[3]@src/A.js", <<"2","e","b","c","9","9","1","d","7","3","3","5">>>>,
  <<"Card.span.Card.element[4]@src/A.js", <<"3","a","a","e","3","e","7","6","0","6","d","b">>>>,
  <<"Card.span.Card.element[5]@src/A.js", <<"9","4","a","9","3","e","0","3","8","8","8","7">>>>,
  <<"Card.span.Card.element[6]@src/A.js", <<"0","7","e","c","9","9","e","0","3","2","2","e">>>>,
  <<"Card.span.Card.element[7]@src/A.js", <<"9","1","2","e","d","3","5","0","9","0","f","3">>>>,
  <<"Card.span.Card.element[8]@src/A.js", <<"7","0","b","3","c","e","e","a","c","1","7","1">>>>,
  <<"Card.span.Card.element[9]@src/A.js", <<"2","6","a","8","a","d","4","5","2","c","5","f">>>>,
  <<"Card.span.Card.element[10]@src/A.js", <<"7","b","a","8","5","a","5","3","1","c","d","f">>>>,
  <<"Card.span.Card.element[11]@src/A.js", <<"4","5","6","0","4","e","1","9","8","f","b","1">>>>,
  <<"Card.span.Card.element[12]@src/A.js", <<"0","1","3","f","3","f","6","7","d","9","b","3">>>>,
  <<"Card.span.Card.element[13]@src/A.js", <<"5","0","d","e","2","d","9","1","e","f","e","b">>>>,
  <<"Card.span.Card.element[14]@src/A.js", <<"8","d","9","3","8","1","8","c","d","3","5","b">>>>,
  <<"Card.span.Card.element[15]@src/A.js", <<"e","e","6","b","d","f","7","a","9","4","3","f">>>>,
  <<"Card.Card.div.element[0]@src/A.js", <<"9","9","9","a","1","3","a","b","a","0","1","b">>>>,
  <<"Card.Card.div.element[1]@src/A.js", <<"8","a","3","6","4","1","0","b","3","7","e","d">>>>,
  <<"Card.Card.div.element[2]@src/A.js", <<"3","5","6","b","6","1","7","1","9","1","3","8">>>>,
  <<"Card.Card.div.element[3]@src/A.js", <<"1","7","4","a","f","4","b","5","b","6","9","0">>>>,
  <<"Card.Card.div.element[4]@src/A.js", <<"e","a","f","7","e","2","b","1","7","2","9","c">>>>,
  <<"Card.Card.div.element[5]@src/A.js", <<"5","6","e","9","8","9","4","b","a","9","d","8">>>>,
  <<"Card.Card.div.element[6]@src/A.js", <<"8","7","6","b","a","8","a","1","f","8","d","8">>>>,
  <<"Card.Card.div.element[7]@src/A.js", <<"c","4","9","b","8","f","5","7","1","3","f","3">>>>,
  <<"Card.Card.div.element[8]@src/A.js", <<"f","7","f","6","2","5","1","a","1","a","5","7">>>>,
  <<"Card.Card.div.element[9]@src/A.js", <<"0","8","8","9","c","b","0","8","c","2","8","c">>>>,
  <<"Card.Card.div.element[10]@src/A.js", <<"7","d","e","0","5","7","5","f","f","3","3","4">>>>,
  <<"Card.Card.div.element[11]@src/A.js", <<"4","6","1","3","3","9","b","9","3","0","2","d">>>>,
  <<"Card.Card.div.element[12]@src/A.js", <<"c","c","c","b","a","4","4","7","e","2","6","5">>>>,
  <<"Card.Card.div.element[13]@src/A.js", <<"8","e","2","8","2","7","d","c","f","1","a","b">>>>,
  <<"Card.Card.div.element[14]@src/A.js", <<"9","a","5","b","2","d","a","b","3","6","b","8">>>>,
  <<"Card.Card.div.element[15]@src/A.js", <<"d","b","5","a","2","3","2","c","4","3","b","5">>>>,
  <<"Card.Card.span.element[0]@src/A.js", <<"9","5","4","0","c","e","2","6","0","6","7","d">>>>,
  <<"Card.Card.span.element[1]@src/A.js", <<"1","b","2","4","1","d","1","0","9","0","4","d">>>>,
  <<"Card.Card.span.element[2]@src/A.js", <<"3","0","7","8","1","d","3","3","6","4","5","e">>>>,
  <<"Card.Card.span.element[3]@src/A.js", <<"9","1","6","4","5","6","b","c","0","4","d","7">>>>,
  <<"Card.Card.span.element[4]@src/A.js", <<"d","4","6","3","3","2","0","d","d","8","6","7">>>>,
  <<"Card.Card.span.element[5]@src/A.js", <<"8","4","d","1","5","1","f","4","4","2","c","4">>>>,
  <<"Card.Card.span.element[6]@src/A.js", <<"e","5","0","8","9","6","d","3","d","5","1","d">>>>,
  <<"Card.Card.span.element[7]@src/A.js", <<"a","e","9","f","6","f","0","6","6","0","a","0">>>>,
  <<"Card.Card.span.element[8]@src/A.js", <<"f","3","f","c","c","b","2","d","5","5","6","3">>>>,
  <<"Card.Card.span.element[9]@src/A.js", <<"e","6","0","5","5","5","e","0","0","f","8","3">>>>,
  <<"Card.Card.span.element[10]@src/A.js", <<"6","1","3","4","b","b","9","2","2","d","c","4">>>>,
  <<"Card.Card.span.element[11]@src/A.js", <<"8","a","b","6","e","6","0","3","d","0","2","0">>>>,
  <<"Card.Card.span.element[12]@src/A.js", <<"b","5","6","1","7","4","a","3","2","6","0","7">>>>,
  <<"Card.Card.span.element[13]@src/A.js", <<"2","3","c","6","e","f","6","b","2","1","a","c">>>>,
  <<"Card.Card.span.element[14]@src/A.js", <<"7","6","6","2","9","c","b","0","3","b","6","2">>>>,
  <<"Card.Card.span.element[15]@src/A.js", <<"9","e","e","0","d","c","0","7","b","3","c","4">>>>,
  <<"Card.Card.Card.element[0]@src/A.js", <<"2","2","a","e","6","6","3","7","5","e","3","1">>>>,
  <<"Card.Card.Card.element[1]@src/A.js", <<"9","c","0","1","e","b","4","f","9","4","0","5">>>>,
  <<"Card.Card.Card.element[2]@src/A.js", <<"9","4","3","e","2","b","0","7","4","5","1","9">>>>,
  <<"Card.Card.Card.element[3]@src/A.js", <<"c","c","7","3","b","a","7","c","c","a","7","0">>>>,
  <<"Card.Card.Card.element[4]@src/A.js", <<"f","e","a","6","3","9","2","7","5","d","e","6">>>>,
  <<"Card.Card.Card.element[5]@src/A.js", <<"b","1","8","4","1","4","4","5","8","0","4","1">>>>,
  <<"Card.Card.Card.element[6]@src/A.js", <<"6","5","e","9","f","6","9","e","f","4","6","f">>>>,
  <<"Card.Card.Card.element[7]@src/A.js", <<"f","4","5","b","2","a","c","0","d","7","f","3">>>>,
  <<"Card.Card.Card.element[8]@src/A.js", <<"b","8","9","2","3","b","4","3","0","2","9","8">>>>,
  <<"Card.Card.Card.element[9]@src/A.js", <<"e","2","b","a","e","c","a","7","c","d","3","7">>>>,
  <<"Card.Card.Card.element[10]@src/A.js", <<"c","d","e","6","8","0","2","f","6","1","f","1">>>>,
  <<"Card.Card.Card.element[11]@src/A.js", <<"b","7","c","d","7","1","1","2","3","4","9","6">>>>,
  <<"Card.Card.Card.element[12]@src/A.js", <<"1","5","1","0","9","3","b","7","a","4","2","d">>>>,
  <<"Card.Card.Card.element[13]@src/A.js", <<"2","c","0","7","b","a","4","1","0","8","1","6">>>>,
  <<"Card.Card.Card.element[14]@src/A.js", <<"3","f","b","2","8","2","b","a","8","0","7","b">>>>,
  <<"Card.Card.Card.element[15]@src/A.js", <<"4","5","6","1","c","e","4","3","1","4","e","8">>>>,
  <<"element[0]@src/B.js", <<"6","5","a","1","0","0","8","0","0","3","a","d">>>>,
  <<"element[1]@src/B.js", <<"c","5","3","e","7","2","9","f","a","a","0","3">>>>,
  <<"element[2]@src/B.js", <<"c","6","4","6","a","6","b","7","c","3","9","4">>>>,
  <<"element[3]@src/B.js", <<"0","2","6","e","8","d","6","3","7","e","2","3">>>>,
  <<"element[4]@src/B.js", <<"f","2","2","b","b","9","2","e","1","c","9","b">>>>,
  <<"element[5]@src/B.js", <<"2","a","d","c","b","2","3","9","d","a","a","5">>>>,
  <<"element[6]@src/B.js", <<"0","b","a","c","0","a","e","e","d","4","c","2">>>>,
  <<"element[7]@src/B.js", <<"2","5","a","b","9","e","b","d","0","5","9","0">>>>,
  <<"element[8]@src/B.js", <<"3","a","9","f","6","3","8","c","2","c","8","7">>>>,
  <<"element[9]@src/B.js", <<"6","3","c","8","2","b","c","7","f","4","c","2">>>>,
  <<"element[10]@src/B.js", <<"d","b","0","d","f","6","e","1","3","8","4","6">>>>,
  <<"element[11]@src/B.js", <<"4","6","2","8","e","5","e","e","d","7","a","a">>>>,
  <<"element[12]@src/B.js", <<"9","b","f","f","a","8","1","0","e","9","d","4">>>>,
  <<"element[13]@src/B.js", <<"7","5","6","a","a","4","7","d","8","1","f","0">>>>,
  <<"element[14]@src/B.js", <<"6","e","a","8","e","6","8","3","6","c","2","c">>>>,
  <<"element[15]@src/B.js", <<"1","8","9","8","b","0","c","e","2","7","9","f">>>>,
  <<"div.element[0]@src/B.js", <<"d","1","3","c","a","4","b","7","8","f","d","c">>>>,
  <<"div.element[1]@src/B.js", <<"a","6","4","a","9","d","5","4","3","7","b","8">>>>,
  <<"div.element[2]@src/B.js", <<"9","3","c","9","4","1","2","0","a","9","a","5">>>>,
  <<"div.element[3]@src/B.js", <<"c","e","6","3","a","b","7","4","b","f","7","8">>>>,
  <<"div.element[4]@src/B.js", <<"d","b","d","8","e","4","c","e","c","4","e","0">>>>,
  <<"div.element[5]@src/B.js", <<"0","5","c","f","a","7","9","5","2","6","c","2">>>>,
  <<"div.element[6]@src/B.js", <<"7","6","a","e","b","9","d","3","6","3","3","2">>>>,
  <<"div.element[7]@src/B.js", <<"7","f","a","3","b","1","c","c","c","9","e","7">>>>,
  <<"div.element[8]@src/B.js", <<"b","5","b","8","7","e","0","a","8","7","b","b">>>>,
  <<"div.element[9]@src/B.js", <<"7","f","2","d","8","d","6","5","2","d","d","b">>>>,
  <<"div.element[10]@src/B.js", <<"a","e","b","9","2","a","c","c","a","d","8","f">>>>,
  <<"div.element[11]@src/B.js", <<"0","3","c","4","0","a","c","a","3","2","f","4">>>>,
  <<"div.element[12]@src/B.js", <<"e","2","3","8","d","9","3","8","3","3","6","a">>>>,
  <<"div.element[13]@src/B.js", <<"3","4","6","c","b","2","5","d","2","c","2","b">>>>,
  <<"div.element[14]@src/B.js", <<"5","b","8","b","c","a","6","0","c","0","5","d">>>>,
  <<"div.element[15]@src/B.js", <<"1","9","6","5","2","d","6","1","d","7","4","3">>>>,
  <<"span.element[0]@src/B.js", <<"7","0","7","8","0","1","9","5","d","b","f","e">>>>,
  <<"span.element[1]@src/B.js", <<"f","c","0","f","2","0","c","0","6","6","c","9">>>>,
  <<"span.element[2]@src/B.js", <<"3","8","e","0","f","c","6","d","9","7","6","0">>>>,
  <<"span.element[3]@src/B.js", <<"7","a","3","7","a","b","9","8","b","2","7","3">>>>,
  <<"span.element[4]@src/B.js", <<"f","6","f","1","2","e","f","5","b","2","a","7">>>>,
  <<"span.element[5]@src/B.js", <<"1","0","9","6","d","a","f","f","6","1","5","4">>>>,
  <<"span.element[6]@src/B.js", <<"3","8","d","a","c","6","a","c","9","2","2","f">>>>,
  <<"span.element[7]@src/B.js", <<"f","1","7","1","b","d","f","4","3","9","f","9">>>>,
  <<"span.element[8]@src/B.js", <<"c","a","1","a","1","3","1","4","8","3","1","5">>>>,
  <<"span.element[9]@src/B.js", <<"e","c","f","a","3","8","0","1","5","6","0","5">>>>,
  <<"span.element[10]@src/B.js", <<"5","c","0","6","9","d","b","6","1","3","7","b">>>>,
  <<"span.element[11]@src/B.js", <<"6","7","4","7","6","0","5","2","7","b","2","f">>>>,
  <<"span.element[12]@src/B.js", <<"0","5","6","c","c","9","f","f","f","d","a","e">>>>,
  <<"span.element[13]@src/B.js", <<"c","0","9","f","e","d","5","7","e","e","5","7">>>>,
  <<"span.element[14]@src/B.js", <<"a","e","d","3","5","b","8","c","2","6","f","3">>>>,
  <<"span.element[15]@src/B.js", <<"d","9","f","d","f","c","0","5","1","2","3","e">>>>,
  <<"Card.element[0]@src/B.js", <<"4","1","2","0","2","4","9","8","6","9","6","7">>>>,
  <<"Card.element[1]@src/B.js", <<"5","4","7","c","a","2","a","d","e","b","f","2">>>>,
  <<"Card.element[2]@src/B.js", <<"6","4","3","3","2","9","1","d","3","d","1","4">>>>,
  <<"Card.element[3]@src/B.js", <<"3","b","1","7","7","4","0","a","c","1","2","9">>>>,
  <<"Card.element[4]@src/B.js", <<"c","4","1","9","f","4","1","1","4","3","9","7">>>>,
  <<"Card.element[5]@src/B.js", <<"4","d","7","0","6","a","7","e","d","a","2","b">>>>,
  <<"Card.element[6]@src/B.js", <<"4","8","0","7","0","7","0","9","a","1","3","5">>>>,
  <<"Card.element[7]@src/B.js", <<"2","5","a","6","2","c","4","9","5","6","e","5">>>>,
  <<"Card.element[8]@src/B.js", <<"3","d","4","f","5","7","7","b","e","b","b","2">>>>,
  <<"Card.element[9]@src/B.js", <<"c","f","3","7","d","0","e","6","f","d","1","0">>>>,
  <<"Card.element[10]@src/B.js", <<"d","1","9","7","f","b","7","3","2","f","a","f">>>>,
  <<"Card.element[11]@src/B.js", <<"d","c","c","3","4","2","4","c","c","6","9","d">>>>,
  <<"Card.element[12]@src/B.js", <<"3","3","2","f","d","8","f","c","c","1","5","1">>>>,
  <<"Card.element[13]@src/B.js", <<"0","c","1","b","3","1","6","d","6","2","4","7">>>>,
  <<"Card.element[14]@src/B.js", <<"e","d","5","e","7","4","f","b","a","b","9","c">>>>,
  <<"Card.element[15]@src/B.js", <<"1","5","8","5","2","2","5","8","2","8","8","2">>>>,
  <<"div.div.element[0]@src/B.js", <<"c","f","3","a","a","a","b","2","1","5","6","c">>>>,
  <<"div.div.element[1]@src/B.js", <<"1","e","d","b","c","e","3","e","7","d","1","6">>>>,
  <<"div.div.element[2]@src/B.js", <<"8","f","1","c","a","a","3","f","0","8","9","b">>>>,
  <<"div.div.element[3]@src/B.js", <<"5","7","2","9","6","0","4","5","5","0","b","3">>>>,
  <<"div.div.element[4]@src/B.js", <<"b","7","3","c","8","8","e","a","5","6","7","0">>>>,
  <<"div.div.element[5]@src/B.js", <<"f","f","e","c","4","b","9","6","6","5","3","0">>>>,
  <<"div.div.element[6]@src/B.js", <<"4","c","5","0","6","0","b","0","9","9","1","b">>>>,
  <<"div.div.element[7]@src/B.js", <<"d","8","0","0","4","3","8","1","2","8","3","d">>>>,
  <<"div.div.element[8]@src/B.js", <<"3","e","4","3","e","6","0","6","4","e","5","c">>>>,
  <<"div.div.element[9]@src/B.js", <<"e","2","3","4","f","c","8","3","2","c","2","c">>>>,
  <<"div.div.element[10]@src/B.js", <<"6","b","9","9","7","a","6","6","b","4","2","3">>>>,
  <<"div.div.element[11]@src/B.js", <<"a","8","9","a","c","f","b","e","d","1","3","0">>>>,
  <<"div.div.element[12]@src/B.js", <<"d","0","0","a","3","b","2","a","f","2","f","1">>>>,
  <<"div.div.element[13]@src/B.js", <<"6","4","8","8","7","5","6","3","2","5","9","c">>>>,
  <<"div.div.element[14]@src/B.js", <<"6","b","c","5","8","3","a","0","d","4","5","d">>>>,
  <<"div.div.element[15]@src/B.js", <<"f","5","7","d","3","e","f","a","f","b","5","6">>>>,
  <<"div.span.element[0]@src/B.js", <<"8","e","1","2","2","5","3","6","c","e","2","7">>>>,
  <<"div.span.element[1]@src/B.js", <<"1","8","f","b","3","0","9","b","2","6","1","3">>>>,
  <<"div.span.element[2]@src/B.js", <<"5","c","2","8","f","a","8","6","9","7","0","d">>>>,
  <<"div.span.element[3]@src/B.js", <<"8","b","7","3","d","4","4","d","c","d","5","b">>>>,
  <<"div.span.element[4]@src/B.js", <<"2","8","b","f","6","f","8","1","2","0","3","2">>>>,
  <<"div.span.element[5]@src/B.js", <<"7","1","7","1","d","d","2","e","b","6","9","e">>>>,
  <<"div.span.element[6]@src/B.js", <<"d","d","6","6","1","7","2","a","0","1","8","c">>>>,
  <<"div.span.element[7]@src/B.js", <<"5","a","a","d","3","8","0","a","0","1","e","9">>>>,
  <<"div.span.element[8]@src/B.js", <<"8","3","7","9","d","0","a","a","7","1","a","0">>>>,
  <<"div.span.element[9]@src/B.js", <<"c","5","e","0","8","1","e","4","6","a","f","3">>>>,
  <<"div.span.element[10]@src/B.js", <<"4","a","5","7","8","2","a","2","8","e","6","f">>>>,
  <<"div.span.element[11]@src/B.js", <<"8","2","7","9","d","9","2","1","e","c","3","7">>>>,
  <<"div.span.element[12]@src/B.js", <<"5","8","e","4","9","6","0","a","f","f","7","6">>>>,
  <<"div.span.element[13]@src/B.js", <<"d","4","a","1","e","6","f","9","7","f","d","d">>>>,
  <<"div.span.element[14]@src/B.js", <<"1","c","4","8","e","5","f","d","8","e","6","1">>>>,
  <<"div.span.element[15]@src/B.js", <<"1","1","d","b","1","4","7","2","4","1","e","9">>>>,
  <<"div.Card.element[0]@src/B.js", <<"d","3","f","e","a","3","8","6","e","1","b","5">>>>,
  <<"div.Card.element[1]@src/B.js", <<"c","f","d","c","7","5","1","7","b","a","c","0">>>>,
  <<"div.Card.element[2]@src/B.js", <<"d","c","f","6","e","6","e","a","8","e","d","c">>>>,
  <<"div.Card.element[3]@src/B.js", <<"8","9","a","b","3","7","d","c","7","f","a","e">>>>,
  <<"div.Card.element[4]@src/B.js", <<"c","3","a","6","f","4","1","b","6","6","9","1">>>>,
  <<"div.Card.element[5]@src/B.js", <<"9","6","2","3","f","9","e","f","2","c","0","7">>>>,
  <<"div.Card.element[6]@src/B.js", <<"4","4","a","0","2","f","d","2","5","4","e","3">>>>,
  <<"div.Card.element[7]@src/B.js", <<"6","5","8","5","f","c","1","f","3","b","2","4">>>>,
  <<"div.Card.element[8]@src/B.js", <<"4","4","1","6","3","3","4","9","e","1","c","0">>>>,
  <<"div.Card.element[9]@src/B.js", <<"2","0","9","c","4","0","7","5","2","0","1","f">>>>,
  <<"div.Card.element[10]@src/B.js", <<"0","b","9","d","c","b","9","1","6","f","d","a">>>>,
  <<"div.Card.element[11]@src/B.js", <<"1","b","2","5","4","2","d","8","0","a","0","4">>>>,
  <<"div.Card.element[12]@src/B.js", <<"5","7","a","7","7","2","a","7","a","9","4","5">>>>,
  <<"div.Card.element[13]@src/B.js", <<"6","c","6","7","a","0","3","c","b","5","d","a">>>>,
  <<"div.Card.element[14]@src/B.js", <<"d","5","1","d","4","5","b","8","d","6","b","5">>>>,
  <<"div.Card.element[15]@src/B.js", <<"9","b","7","e","e","d","3","0","9","5","6","a">>>>,
  <<"span.div.element[0]@src/B.js", <<"1","7","c","0","2","0","5","0","1","b","7","6">>>>,
  <<"span.div.element[1]@src/B.js", <<"b","5","6","b","7","7","7","1","d","b","7","c">>>>,
  <<"span.div.element[2]@src/B.js", <<"a","3","f","e","f","e","e","0","a","5","f","f">>>>,
  <<"span.div.element[3]@src/B.js", <<"1","5","1","a","7","2","4","6","a","e","2","5">>>>,
  <<"span.div.element[4]@src/B.js", <<"c","8","4","2","6","f","e","4","c","c","1","7">>>>,
  <<"span.div.element[5]@src/B.js", <<"d","1","e","6","e","1","3","4","6","9","8","1">>>>,
  <<"span.div.element[6]@src/B.js", <<"8","f","b","5","4","3","5","6","7","0","6","4">>>>,
  <<"span.div.element[7]@src/B.js", <<"8","3","7","2","c","a","a","7","2","0","c","f">>>>,
  <<"span.div.element[8]@src/B.js", <<"a","c","1","5","e","f","8","b","0","5","8","5">>>>,
  <<"span.div.element[9]@src/B.js", <<"4","b","2","0","8","5","0","b","2","e","b","c">>>>,
  <<"span.div.element[10]@src/B.js", <<"9","0","7","1","3","2","d","5","5","7","b","e">>>>,
  <<"span.div.element[11]@src/B.js", <<"7","6","9","9","0","7","e","b","8","f","3","0">>>>,
  <<"span.div.element[12]@src/B.js", <<"7","f","0","0","b","2","e","f","9","5","e","6">>>>,
  <<"span.div.element[13]@src/B.js", <<"d","a","b","b","1","f","d","d","5","c","7","e">>>>,
  <<"span.div.element[14]@src/B.js", <<"3","9","9","d","2","5","0","6","b","1","b","a">>>>,
  <<"span.div.element[15]@src/B.js", <<"6","7","f","6","a","2","e","3","9","f","f","3">>>>,
  <<"span.span.element[0]@src/B.js", <<"0","6","8","3","1","d","d","1","1","b","1","d">>>>,
  <<"span.span.element[1]@src/B.js", <<"4","7","d","a","d","5","2","7","4","d","2","3">>>>,
  <<"span.span.element[2]@src/B.js", <<"9","a","5","b","e","d","a","b","3","3","5","1">>>>,
  <<"span.span.element[3]@src/B.js", <<"8","a","0","3","3","1","9","c","c","0","3","5">>>>,
  <<"span.span.element[4]@src/B.js", <<"0","e","b","b","5","2","c","a","8","a","3","8">>>>,
  <<"span.span.element[5]@src/B.js", <<"0","e","2","7","c","c","f","7","b","3","4","6">>>>,
  <<"span.span.element[6]@src/B.js", <<"0","7","2","c","0","c","2","4","f","3","c","1">>>>,
  <<"span.span.element[7]@src/B.js", <<"7","9","3","b","0","b","4","0","b","c","4","2">>>>,
  <<"span.span.element[8]@src/B.js", <<"6","1","b","5","4","f","5","6","a","2","3","5">>>>,
  <<"span.span.element[9]@src/B.js", <<"1","4","f","8","b","f","9","0","4","4","e","a">>>>,
  <<"span.span.element[10]@src/B.js", <<"e","7","6","1","1","6","0","0","7","1","0","3">>>>,
  <<"span.span.element[11]@src/B.js", <<"0","b","7","9","b","b","4","9","2","9","3","8">>>>,
  <<"span.span.element[12]@src/B.js", <<"f","5","0","d","e","b","1","a","d","3","3","5">>>>,
  <<"span.span.element[13]@src/B.js", <<"6","6","8","3","3","4","7","a","6","c","7","1">>>>,
  <<"span.span.element[14]@src/B.js", <<"a","1","2","1","9","b","8","8","b","a","4","e">>>>,
  <<"span.span.element[15]@src/B.js", <<"5","e","3","3","1","7","a","f","8","f","9","4">>>>,
  <<"span.Card.element[0]@src/B.js", <<"0","1","7","9","f","4","9","8","d","7","e","8">>>>,
  <<"span.Card.element[1]@src/B.js", <<"e","2","a","0","2","e","b","3","c","4","e","f">>>>,
  <<"span.Card.element[2]@src/B.js", <<"a","f","5","a","4","d","b","8","b","2","9","7">>>>,
  <<"span.Card.element[3]@src/B.js", <<"4","1","e","6","f","3","c","d","e","b","5","6">>>>,
  <<"span.Card.element[4]@src/B.js", <<"b","4","a","3","c","8","e","4","e","7","4","2">>>>,
  <<"span.Card.element[5]@src/B.js", <<"8","2","3","0","3","e","1","c","2","5","1","f">>>>,
  <<"span.Card.element[6]@src/B.js", <<"f","a","8","c","9","3","f","f","c","0","2","8">>>>,
  <<"span.Card.element[7]@src/B.js", <<"0","3","b","3","5","4","e","7","e","1","b","5">>>>,
  <<"span.Card.element[8]@src/B.js", <<"6","0","8","7","4","8","a","a","0","0","8","0">>>>,
  <<"span.Card.element[9]@src/B.js", <<"c","9","1","7","5","0","8","1","a","e","8","d">>>>,
  <<"span.Card.element[10]@src/B.js", <<"e","3","e","9","d","c","c","5","a","3","c","3">>>>,
  <<"span.Card.element[11]@src/B.js", <<"d","3","a","f","f","a","0","0","8","c","8","e">>>>,
  <<"span.Card.element[12]@src/B.js", <<"e","8","e","8","6","3","3","c","b","7","d","9">>>>,
  <<"span.Card.element[13]@src/B.js", <<"3","6","e","7","b","9","2","3","4","3","c","f">>>>,
  <<"span.Card.element[14]@src/B.js", <<"e","0","1","f","a","1","4","1","5","d","8","6">>>>,
  <<"span.Card.element[15]@src/B.js", <<"8","5","d","f","c","5","b","c","8","e","4","c">>>>,
  <<"Card.div.element[0]@src/B.js", <<"b","4","2","b","b","f","9","f","4","4","c","8">>>>,
  <<"Card.div.element[1]@src/B.js", <<"4","5","4","3","3","e","b","0","8","0","7","3">>>>,
  <<"Card.div.element[2]@src/B.js", <<"d","4","f","d","6","3","0","c","9","4","a","6">>>>,
  <<"Card.div.element[3]@src/B.js", <<"9","8","4","8","4","e","6","f","0","2","0","7">>>>,
  <<"Card.div.element[4]@src/B.js", <<"c","1","1","0","6","a","b","8","8","e","b","e">>>>,
  <<"Card.div.element[5]@src/B.js", <<"6","7","2","b","e","a","c","7","c","4","5","d">>>>,
  <<"Card.div.element[6]@src/B.js", <<"8","2","0","d","b","d","e","c","c","8","9","a">>>>,
  <<"Card.div.element[7]@src/B.js", <<"2","8","d","c","9","a","4","4","6","7","0","2">>>>,
  <<"Card.div.element[8]@src/B.js", <<"e","b","7","f","c","8","f","b","d","c","d","d">>>>,
  <<"Card.div.element[9]@src/B.js", <<"c","2","5","0","1","6","5","b","8","1","6","2">>>>,
  <<"Card.div.element[10]@src/B.js", <<"0","7","9","f","7","0","2","e","8","7","6","8">>>>,
  <<"Card.div.element[11]@src/B.js", <<"8","b","a","a","d","2","e","9","0","5","7","f">>>>,
  <<"Card.div.element[12]@src/B.js", <<"c","b","4","e","2","5","7","7","9","0","b","9">>>>,
  <<"Card.div.element[13]@src/B.js", <<"4","4","8","4","d","c","d","c","8","e","8","9">>>>,
  <<"Card.div.element[14]@src/B.js", <<"1","6","3","6","8","6","2","5","5","9","8","6">>>>,
  <<"Card.div.element[15]@src/B.js", <<"9","d","c","4","a","c","a","5","f","5","f","7">>>>,
  <<"Card.span.element[0]@src/B.js", <<"f","8","2","7","0","3","a","6","e","b","9","6">>>>,
  <<"Card.span.element[1]@src/B.js", <<"9","d","0","6","c","4","7","1","7","a","6","e">>>>,
  <<"Card.span.element[2]@src/B.js", <<"1","9","e","2","6","9","f","8","d","d","4","3">>>>,
  <<"Card.span.element[3]@src/B.js", <<"7","2","6","f","e","5","1","a","f","8","5","7">>>>,
  <<"Card.span.element[4]@src/B.js", <<"5","8","7","6","1","9","2","f","8","8","d","e">>>>,
  <<"Card.span.element[5]@src/B.js", <<"2","b","7","8","4","a","d","6","b","1","d","f">>>>,
  <<"Card.span.element[6]@src/B.js", <<"1","8","8","8","c","3","9","d","7","c","8","5">>>>,
  <<"Card.span.element[7]@src/B.js", <<"1","d","2","7","5","6","f","1","5","a","1","8">>>>,
  <<"Card.span.element[8]@src/B.js", <<"9","6","1","1","4","7","1","4","5","f","a","d">>>>,
  <<"Card.span.element[9]@src/B.js", <<"a","2","a","a","2","4","9","8","c","6","f","7">>>>,
  <<"Card.span.element[10]@src/B.js", <<"8","c","c","e","0","c","d","d","9","a","4","f">>>>,
  <<"Card.span.element[11]@src/B.js", <<"0","6","a","b","2","2","6","6","5","b","6","8">>>>,
  <<"Card.span.element[12]@src/B.js", <<"f","b","0","5","e","d","5","5","5","1","6","e">>>>,
  <<"Card.span.element[13]@src/B.js", <<"4","0","4","3","b","3","6","d","a","f","a","5">>>>,
  <<"Card.span.element[14]@src/B.js", <<"f","e","3","0","6","5","b","5","a","5","1","8">>>>,
  <<"Card.span.element[15]@src/B.js", <<"f","1","e","1","f","d","b","2","4","e","a","d">>>>,
  <<"Card.Card.element[0]@src/B.js", <<"4","d","6","d","7","d","f","8","0","d","1","e">>>>,
  <<"Card.Card.element[1]@src/B.js", <<"a","b","5","1","f","9","1","f","7","f","5","5">>>>,
  <<"Card.Card.element[2]@src/B.js", <<"a","1","b","c","e","f","3","3","9","3","e","7">>>>,
  <<"Card.Card.element[3]@src/B.js", <<"1","a","2","4","2","2","e","b","e","8","9","9">>>>,
  <<"Card.Card.element[4]@src/B.js", <<"9","b","c","d","0","7","f","8","4","8","d","8">>>>,
  <<"Card.Card.element[5]@src/B.js", <<"6","0","a","4","f","8","f","a","c","e","2","d">>>>,
  <<"Card.Card.element[6]@src/B.js", <<"5","2","9","1","6","3","d","0","b","b","d","1">>>>,
  <<"Card.Card.element[7]@src/B.js", <<"8","f","4","6","2","9","9","c","a","f","1","e">>>>,
  <<"Card.Card.element[8]@src/B.js", <<"e","5","f","7","0","6","f","5","8","0","0","5">>>>,
  <<"Card.Card.element[9]@src/B.js", <<"f","9","0","1","8","e","d","9","a","5","d","2">>>>,
  <<"Card.Card.element[10]@src/B.js", <<"4","e","0","5","3","1","6","8","2","c","0","a">>>>,
  <<"Card.Card.element[11]@src/B.js", <<"c","8","c","9","5","1","e","8","b","b","e","d">>>>,
  <<"Card.Card.element[12]@src/B.js", <<"4","f","e","f","4","f","4","8","c","5","0","0">>>>,
  <<"Card.Card.element[13]@src/B.js", <<"2","0","0","0","e","e","d","0","d","4","c","3">>>>,
  <<"Card.Card.element[14]@src/B.js", <<"f","a","b","c","5","0","5","c","c","5","2","7">>>>,
  <<"Card.Card.element[15]@src/B.js", <<"c","c","7","d","a","d","c","e","1","f","0","2">>>>,
  <<"div.div.div.element[0]@src/B.js", <<"c","f","1","4","5","4","2","c","a","f","9","5">>>>,
  <<"div.div.div.element[1]@src/B.js", <<"b","7","8","c","d","a","6","2","f","e","a","0">>>>,
  <<"div.div.div.element[2]@src/B.js", <<"b","b","d","1","b","5","0","2","f","4","d","1">>>>,
  <<"div.div.div.element[3]@src/B.js", <<"a","a","f","5","a","b","8","7","b","7","d","9">>>>,
  <<"div.div.div.element[4]@src/B.js", <<"c","8","1","4","2","f","d","6","b","f","b","f">>>>,
  <<"div.div.div.element[5]@src/B.js", <<"0","b","6","c","a","f","5","6","f","5","3","7">>>>,
  <<"div.div.div.element[6]@src/B.js", <<"e","0","4","2","c","c","8","c","e","3","6","9">>>>,
  <<"div.div.div.element[7]@src/B.js", <<"0","8","3","5","4","8","e","8","d","a","9","b">>>>,
  <<"div.div.div.element[8]@src/B.js", <<"3","b","a","9","2","9","c","9","7","e","f","5">>>>,
  <<"div.div.div.element[9]@src/B.js", <<"e","f","4","3","f","f","8","5","4","7","6","6">>>>,
  <<"div.div.div.element[10]@src/B.js", <<"3","2","e","1","f","9","1","9","e","5","6","2">>>>,
  <<"div.div.div.element[11]@src/B.js", <<"3","d","e","d","d","7","e","1","d","5","4","f">>>>,
  <<"div.div.div.element[12]@src/B.js", <<"6","c","d","9","c","a","9","9","f","2","a","d">>>>,
  <<"div.div.div.element[13]@src/B.js", <<"9","1","9","f","0","e","9","b","8","6","6","d">>>>,
  <<"div.div.div.element[14]@src/B.js", <<"6","7","7","8","5","5","7","4","7","d","e","5">>>>,
  <<"div.div.div.element[15]@src/B.js", <<"a","3","a","d","9","4","f","a","9","0","8","6">>>>,
  <<"div.div.span.element[0]@src/B.js", <<"c","e","6","e","e","a","4","7","7","0","1","f">>>>,
  <<"div.div.span.element[1]@src/B.js", <<"0","8","1","a","7","9","f","a","5","b","8","c">>>>,
  <<"div.div.span.element[2]@src/B.js", <<"c","8","c","c","2","d","3","0","2","0","1","7">>>>,
  <<"div.div.span.element[3]@src/B.js", <<"1","a","a","4","d","a","8","e","5","b","8","a">>>>,
  <<"div.div.span.element[4]@src/B.js", <<"4","1","d","a","f","4","a","6","6","a","3","4">>>>,
  <<"div.div.span.element[5]@src/B.js", <<"5","6","6","b","6","1","f","1","a","1","b","9">>>>,
  <<"div.div.span.element[6]@src/B.js", <<"e","c","c","8","9","1","a","4","5","8","8","d">>>>,
  <<"div.div.span.element[7]@src/B.js", <<"0","d","7","e","a","9","d","0","5","3","8","8">>>>,
  <<"div.div.span.element[8]@src/B.js", <<"4","9","4","e","f","a","a","6","6","e","0","2">>>>,
  <<"div.div.span.element[9]@src/B.js", <<"6","1","a","7","b","9","3","3","c","2","2","a">>>>,
  <<"div.div.span.element[10]@src/B.js", <<"4","a","e","f","f","4","f","1","9","3","3","d">>>>,
  <<"div.div.span.element[11]@src/B.js", <<"a","4","d","5","d","c","d","7","a","4","4","8">>>>,
  <<"div.div.span.element[12]@src/B.js", <<"f","a","1","8","0","a","2","a","b","1","4","0">>>>,
  <<"div.div.span.element[13]@src/B.js", <<"1","4","b","b","d","8","3","b","3","7","7","c">>>>,
  <<"div.div.span.element[14]@src/B.js", <<"e","3","c","e","4","1","0","c","5","2","0","7">>>>,
  <<"div.div.span.element[15]@src/B.js", <<"7","e","a","d","8","1","1","9","0","2","f","5">>>>,
  <<"div.div.Card.element[0]@src/B.js", <<"2","1","9","2","c","8","6","e","5","d","0","7">>>>,
  <<"div.div.Card.element[1]@src/B.js", <<"e","d","7","5","1","e","7","5","d","a","9","5">>>>,
  <<"div.div.Card.element[2]@src/B.js", <<"3","2","b","4","3","e","2","c","a","e","c","1">>>>,
  <<"div.div.Card.element[3]@src/B.js", <<"d","f","4","8","a","9","2","d","4","8","1","3">>>>,
  <<"div.div.Card.element[4]@src/B.js", <<"3","1","9","0","7","7","0","f","1","a","f","f">>>>,
  <<"div.div.Card.element[5]@src/B.js", <<"5","d","6","f","e","4","c","0","e","8","7","a">>>>,
  <<"div.div.Card.element[6]@src/B.js", <<"f","3","a","3","c","7","f","2","2","9","a","9">>>>,
  <<"div.div.Card.element[7]@src/B.js", <<"8","1","b","2","a","5","f","8","8","1","d","0">>>>,
  <<"div.div.Card.element[8]@src/B.js", <<"4","9","b","a","5","1","0","7","b","7","f","f">>>>,
  <<"div.div.Card.element[9]@src/B.js", <<"c","9","8","9","9","0","f","6","f","8","8","5">>>>,
  <<"div.div.Card.element[10]@src/B.js", <<"4","2","f","a","d","c","c","1","0","c","5","e">>>>,
  <<"div.div.Card.element[11]@src/B.js", <<"d","f","5","1","1","a","6","1","9","7","d","0">>>>,
  <<"div.div.Card.element[12]@src/B.js", <<"b","d","5","1","c","0","4","7","4","d","b","b">>>>,
  <<"div.div.Card.element[13]@src/B.js", <<"f","6","b","d","3","4","a","2","c","9","7","a">>>>,
  <<"div.div.Card.element[14]@src/B.js", <<"e","a","0","4","2","c","a","1","d","d","4","c">>>>,
  <<"div.div.Card.element[15]@src/B.js", <<"0","f","f","8","a","3","4","f","5","3","7","6">>>>,
  <<"div.span.div.element[0]@src/B.js", <<"5","a","4","b","a","9","a","1","3","e","4","8">>>>,
  <<"div.span.div.element[1]@src/B.js", <<"5","b","f","2","8","9","9","b","4","d","a","3">>>>,
  <<"div.span.div.element[2]@src/B.js", <<"1","3","0","1","c","3","0","8","8","4","4","4">>>>,
  <<"div.span.div.element[3]@src/B.js", <<"8","5","4","c","e","2","5","8","3","a","b","a">>>>,
  <<"div.span.div.element[4]@src/B.js", <<"1","b","3","8","3","f","9","7","2","4","6","0">>>>,
  <<"div.span.div.element[5]@src/B.js", <<"8","1","8","9","7","b","d","1","f","b","b","e">>>>,
  <<"div.span.div.element[6]@src/B.js", <<"6","5","6","0","2","6","a","6","4","1","3","0">>>>,
  <<"div.span.div.element[7]@src/B.js", <<"9","7","3","4","6","7","3","5","4","c","2","d">>>>,
  <<"div.span.div.element[8]@src/B.js", <<"7","9","2","1","8","5","0","6","6","2","d","a">>>>,
  <<"div.span.div.element[9]@src/B.js", <<"3","2","f","9","7","3","7","1","9","0","e","d">>>>,
  <<"div.span.div.element[10]@src/B.js", <<"1","b","8","f","8","8","a","d","c","7","9","6">>>>,
  <<"div.span.div.element[11]@src/B.js", <<"6","6","f","c","2","a","9","b","e","2","3","6">>>>,
  <<"div.span.div.element[12]@src/B.js", <<"9","7","3","3","a","8","4","0","e","9","a","9">>>>,
  <<"div.span.div.element[13]@src/B.js", <<"c","7","d","f","4","9","3","3","1","7","d","e">>>>,
  <<"div.span.div.element[14]@src/B.js", <<"a","4","3","0","9","6","6","d","2","a","c","b">>>>,
  <<"div.span.div.element[15]@src/B.js", <<"5","7","9","4","2","5","1","d","e","5","3","a">>>>,
  <<"div.span.span.element[0]@src/B.js", <<"6","e","d","6","7","c","4","c","f","6","9","2">>>>,
  <<"div.span.span.element[1]@src/B.js", <<"e","0","5","4","f","3","5","8","4","b","d","f">>>>,
  <<"div.span.span.element[2]@src/B.js", <<"1","0","a","8","1","3","d","7","e","5","3","9">>>>,
  <<"div.span.span.element[3]@src/B.js", <<"3","d","b","e","5","6","5","c","f","2","e","f">>>>,
  <<"div.span.span.element[4]@src/B.js", <<"2","9","9","3","d","d","8","f","8","c","9","e">>>>,
  <<"div.span.span.element[5]@src/B.js", <<"8","e","a","7","2","e","0","4","d","3","0","f">>>>,
  <<"div.span.span.element[6]@src/B.js", <<"e","4","b","7","d","e","9","a","9","8","5","f">>>>,
  <<"div.span.span.element[7]@src/B.js", <<"1","d","5","e","8","a","3","8","9","7","8","9">>>>,
  <<"div.span.span.element[8]@src/B.js", <<"2","4","2","f","0","a","b","d","2","e","1","c">>>>,
  <<"div.span.span.element[9]@src/B.js", <<"d","1","2","2","2","c","0","c","d","6","1","9">>>>,
  <<"div.span.span.element[10]@src/B.js", <<"a","9","7","3","f","5","d","9","1","c","6","b">>>>,
  <<"div.span.span.element[11]@src/B.js", <<"f","7","5","9","d","7","3","a","c","a","1","a">>>>,
  <<"div.span.span.element[12]@src/B.js", <<"2","d","2","e","d","4","d","2","b","4","4","8">>>>,
  <<"div.span.span.element[13]@src/B.js", <<"8","e","a","b","6","e","7","d","e","4","1","b">>>>,
  <<"div.span.span.element[14]@src/B.js", <<"8","6","a","7","e","8","b","a","4","a","6","1">>>>,
  <<"div.span.span.element[15]@src/B.js", <<"5","e","c","9","c","a","c","0","d","a","2","1">>>>,
  <<"div.span.Card.element[0]@src/B.js", <<"b","9","0","8","2","e","8","3","5","7","8","6">>>>,
  <<"div.span.Card.element[1]@src/B.js", <<"d","0","4","8","d","9","0","0","f","9","a","f">>>>,
  <<"div.span.Card.element[2]@src/B.js", <<"9","e","c","5","8","f","c","1","9","8","2","e">>>>,
  <<"div.span.Card.element[3]@src/B.js", <<"7","9","a","1","0","9","5","f","c","d","5","4">>>>,
  <<"div.span.Card.element[4]@src/B.js", <<"0","9","c","0","9","8","5","a","a","7","7","c">>>>,
  <<"div.span.Card.element[5]@src/B.js", <<"4","d","4","c","8","3","0","3","e","e","8","8">>>>,
  <<"div.span.Card.element[6]@src/B.js", <<"4","d","5","2","5","d","e","e","6","8","0","6">>>>,
  <<"div.span.Card.element[7]@src/B.js", <<"8","0","f","a","1","a","4","f","a","3","9","b">>>>,
  <<"div.span.Card.element[8]@src/B.js", <<"7","4","d","2","2","0","f","2","f","e","a","a">>>>,
  <<"div.span.Card.element[9]@src/B.js", <<"2","9","0","a","b","a","5","2","6","c","3","a">>>>,
  <<"div.span.Card.element[10]@src/B.js", <<"d","a","d","b","d","9","9","7","e","c","6","a">>>>,
  <<"div.span.Card.element[11]@src/B.js", <<"0","3","4","c","5","d","7","6","7","2","4","b">>>>,
  <<"div.span.Card.element[12]@src/B.js", <<"f","8","8","a","2","d","f","b","7","f","3","7">>>>,
  <<"div.span.Card.element[13]@src/B.js", <<"2","7","d","1","2","3","2","9","8","b","3","1">>>>,
  <<"div.span.Card.element[14]@src/B.js", <<"6","d","b","8","9","6","9","b","a","7","6","4">>>>,
  <<"div.span.Card.element[15]@src/B.js", <<"7","8","9","f","3","c","a","4","d","a","2","4">>>>,
  <<"div.Card.div.element[0]@src/B.js", <<"2","c","e","4","4","0","4","b","1","f","2","7">>>>,
  <<"div.Card.div.element[1]@src/B.js", <<"9","9","9","f","6","b","3","e","a","b","9","0">>>>,
  <<"div.Card.div.element[2]@src/B.js", <<"3","4","3","9","d","0","9","0","7","4","a","4">>>>,
  <<"div.Card.div.element[3]@src/B.js", <<"e","c","4","0","1","7","f","6","a","9","f","3">>>>,
  <<"div.Card.div.element[4]@src/B.js", <<"e","b","4","1","6","e","1","3","a","d","a","1">>>>,
  <<"div.Card.div.element[5]@src/B.js", <<"d","c","6","f","7","9","d","6","6","e","f","7">>>>,
  <<"div.Card.div.element[6]@src/B.js", <<"5","a","e","a","4","7","5","d","8","7","1","1">>>>,
  <<"div.Card.div.element[7]@src/B.js", <<"c","a","0","2","8","5","c","f","1","8","4","e">>>>,
  <<"div.Card.div.element[8]@src/B.js", <<"1","8","6","3","3","9","e","2","b","b","c","5">>>>,
  <<"div.Card.div.element[9]@src/B.js", <<"7","8","3","5","2","b","d","0","9","4","0","4">>>>,
  <<"div.Card.div.element[10]@src/B.js", <<"2","9","1","b","2","e","2","a","6","d","d","1">>>>,
  <<"div.Card.div.element[11]@src/B.js", <<"4","8","4","e","e","b","7","3","f","a","7","0">>>>,
  <<"div.Card.div.element[12]@src/B.js", <<"d","b","7","f","3","0","e","b","9","8","4","0">>>>,
  <<"div.Card.div.element[13]@src/B.js", <<"8","f","1","1","a","c","e","3","f","d","8","3">>>>,
  <<"div.Card.div.element[14]@src/B.js", <<"5","c","9","d","b","1","d","2","7","d","9","2">>>>,
  <<"div.Card.div.element[15]@src/B.js", <<"3","5","9","5","e","1","f","c","b","2","5","0">>>>,
  <<"div.Card.span.element[0]@src/B.js", <<"5","3","1","d","c","5","3","8","b","9","f","4">>>>,
  <<"div.Card.span.element[1]@src/B.js", <<"7","b","1","f","a","d","a","4","f","5","a","1">>>>,
  <<"div.Card.span.element[2]@src/B.js", <<"7","4","2","a","8","e","0","5","0","0","e","6">>>>,
  <<"div.Card.span.element[3]@src/B.js", <<"0","0","a","3","a","f","c","2","9","0","f","5">>>>,
  <<"div.Card.span.element[4]@src/B.js", <<"9","7","3","6","d","c","1","7","d","a","c","a">>>>,
  <<"div.Card.span.element[5]@src/B.js", <<"0","d","0","c","0","d","8","7","4","5","5","d">>>>,
  <<"div.Card.span.element[6]@src/B.js", <<"e","b","a","9","c","2","8","8","d","3","9","e">>>>,
  <<"div.Card.span.element[7]@src/B.js", <<"1","d","0","a","4","a","a","6","f","7","f","f">>>>,
  <<"div.Card.span.element[8]@src/B.js", <<"b","c","e","6","c","9","1","f","a","6","2","a">>>>,
  <<"div.Card.span.element[9]@src/B.js", <<"1","0","3","f","6","c","9","1","b","d","8","a">>>>,
  <<"div.Card.span.element[10]@src/B.js", <<"6","7","0","2","c","a","9","3","7","3","9","4">>>>,
  <<"div.Card.span.element[11]@src/B.js", <<"2","4","d","d","6","a","e","0","a","e","5","8">>>>,
  <<"div.Card.span.element[12]@src/B.js", <<"3","4","d","a","4","8","d","7","9","0","d","b">>>>,
  <<"div.Card.span.element[13]@src/B.js", <<"9","5","a","1","1","e","5","0","b","6","2","b">>>>,
  <<"div.Card.span.element[14]@src/B.js", <<"0","4","f","9","3","7","7","a","f","9","8","7">>>>,
  <<"div.Card.span.element[15]@src/B.js", <<"c","0","8","8","7","1","f","9","0","8","2","d">>>>,
  <<"div.Card.Card.element[0]@src/B.js", <<"6","b","0","d","b","0","6","2","7","a","5","0">>>>,
  <<"div.Card.Card.element[1]@src/B.js", <<"d","6","2","8","a","6","5","2","e","6","d","7">>>>,
  <<"div.Card.Card.element[2]@src/B.js", <<"6","6","b","c","0","b","6","b","1","a","0","5">>>>,
  <<"div.Card.Card.element[3]@src/B.js", <<"d","7","c","9","9","e","7","b","7","1","8","5">>>>,
  <<"div.Card.Card.element[4]@src/B.js", <<"1","4","0","0","8","a","3","2","3","5","8","0">>>>,
  <<"div.Card.Card.element[5]@src/B.js", <<"b","3","6","a","5","0","b","e","e","7","4","3">>>>,
  <<"div.Card.Card.element[6]@src/B.js", <<"1","7","5","2","0","b","0","0","4","5","e","f">>>>,
  <<"div.Card.Card.element[7]@src/B.js", <<"2","9","8","b","6","9","c","0","6","b","3","7">>>>,
  <<"div.Card.Card.element[8]@src/B.js", <<"0","1","4","a","3","c","f","6","5","6","3","3">>>>,
  <<"div.Card.Card.element[9]@src/B.js", <<"1","2","1","e","0","a","3","c","9","e","8","d">>>>,
  <<"div.Card.Card.element[10]@src/B.js", <<"7","2","b","d","2","1","b","8","c","d","e","8">>>>,
  <<"div.Card.Card.element[11]@src/B.js", <<"4","1","4","e","1","8","1","f","4","6","d","e">>>>,
  <<"div.Card.Card.element[12]@src/B.js", <<"a","1","6","4","9","4","a","b","9","e","6","e">>>>,
  <<"div.Card.Card.element[13]@src/B.js", <<"6","f","7","3","f","f","8","4","5","c","9","d">>>>,
  <<"div.Card.Card.element[14]@src/B.js", <<"3","7","1","f","8","a","f","8","1","2","1","b">>>>,
  <<"div.Card.Card.element[15]@src/B.js", <<"9","c","9","7","b","1","2","7","2","1","e","a">>>>,
  <<"span.div.div.element[0]@src/B.js", <<"4","b","4","7","a","e","d","f","8","8","f","9">>>>,
  <<"span.div.div.element[1]@src/B.js", <<"4","f","0","0","2","5","0","3","1","a","8","7">>>>,
  <<"span.div.div.element[2]@src/B.js", <<"5","9","e","6","f","2","8","2","f","9","3","3">>>>,
  <<"span.div.div.element[3]@src/B.js", <<"f","b","3","b","a","3","9","6","5","c","8","5">>>>,
  <<"span.div.div.element[4]@src/B.js", <<"2","6","b","8","0","9","7","3","a","6","b","d">>>>,
  <<"span.div.div.element[5]@src/B.js", <<"2","c","e","4","2","b","0","9","6","d","9","e">>>>,
  <<"span.div.div.element[6]@src/B.js", <<"b","9","5","1","f","5","7","b","c","3","c","d">>>>,
  <<"span.div.div.element[7]@src/B.js", <<"b","d","1","0","8","c","e","1","8","0","e","c">>>>,
  <<"span.div.div.element[8]@src/B.js", <<"3","d","6","a","e","3","0","e","a","e","2","3">>>>,
  <<"span.div.div.element[9]@src/B.js", <<"5","9","f","9","8","1","b","2","6","0","0","3">>>>,
  <<"span.div.div.element[10]@src/B.js", <<"9","0","8","0","e","6","d","d","5","e","c","9">>>>,
  <<"span.div.div.element[11]@src/B.js", <<"d","6","1","c","6","e","5","d","9","1","0","5">>>>,
  <<"span.div.div.element[12]@src/B.js", <<"0","a","1","6","5","3","4","4","d","6","d","6">>>>,
  <<"span.div.div.element[13]@src/B.js", <<"6","8","c","d","6","b","5","2","4","7","5","5">>>>,
  <<"span.div.div.element[14]@src/B.js", <<"8","8","1","b","e","1","3","0","a","6","f","e">>>>,
  <<"span.div.div.element[15]@src/B.js", <<"9","8","9","b","7","a","c","c","8","7","c","c">>>>,
  <<"span.div.span.element[0]@src/B.js", <<"a","0","a","7","8","d","5","f","7","3","8","c">>>>,
  <<"span.div.span.element[1]@src/B.js", <<"7","2","b","e","e","4","c","1","4","5","4","7">>>>,
  <<"span.div.span.element[2]@src/B.js", <<"5","4","3","2","b","c","e","0","9","2","8","c">>>>,
  <<"span.div.span.element[3]@src/B.js", <<"f","5","8","3","e","8","b","e","8","0","2","4">>>>,
  <<"span.div.span.element[4]@src/B.js", <<"2","d","9","a","e","6","0","9","2","c","9","8">>>>,
  <<"span.div.span.element[5]@src/B.js", <<"0","8","d","6","8","5","e","a","d","1","b","7">>>>,
  <<"span.div.span.element[6]@src/B.js", <<"e","a","e","0","c","a","1","3","d","5","a","2">>>>,
  <<"span.div.span.element[7]@src/B.js", <<"7","b","a","4","2","5","6","b","3","5","0","b">>>>,
  <<"span.div.span.element[8]@src/B.js", <<"5","9","d","9","c","6","8","0","c","c","d","4">>>>,
  <<"span.div.span.element[9]@src/B.js", <<"a","8","4","1","e","c","b","0","a","3","d","7">>>>,
  <<"span.div.span.element[10]@src/B.js", <<"8","4","b","a","1","d","3","8","9","1","d","f">>>>,
  <<"span.div.span.element[11]@src/B.js", <<"8","1","0","4","e","3","f","e","f","d","d","9">>>>,
  <<"span.div.span.element[12]@src/B.js", <<"1","7","7","f","1","a","e","3","3","7","5","8">>>>,
  <<"span.div.span.element[13]@src/B.js", <<"2","d","5","1","f","9","0","9","e","e","4","9">>>>,
  <<"span.div.span.element[14]@src/B.js", <<"f","4","4","f","4","f","e","2","c","4","a","3">>>>,
  <<"span.div.span.element[15]@src/B.js", <<"4","4","b","c","e","b","8","c","1","0","8","e">>>>,
  <<"span.div.Card.element[0]@src/B.js", <<"5","6","e","1","4","3","7","7","a","c","6","8">>>>,
  <<"span.div.Card.element[1]@src/B.js", <<"3","d","3","0","e","d","c","6","3","2","b","5">>>>,
  <<"span.div.Card.element[2]@src/B.js", <<"e","6","2","7","7","8","f","c","8","a","9","4">>>>,
  <<"span.div.Card.element[3]@src/B.js", <<"9","e","5","a","a","1","c","6","2","d","b","9">>>>,
  <<"span.div.Card.element[4]@src/B.js", <<"b","8","6","4","3","0","8","b","f","d","7","7">>>>,
  <<"span.div.Card.element[5]@src/B.js", <<"0","4","4","a","5","6","8","6","2","8","4","8">>>>,
  <<"span.div.Card.element[6]@src/B.js", <<"7","1","c","4","6","b","1","b","d","c","0","c">>>>,
  <<"span.div.Card.element[7]@src/B.js", <<"c","c","b","8","6","b","f","3","2","0","5","c">>>>,
  <<"span.div.Card.element[8]@src/B.js", <<"e","2","9","f","e","6","6","0","1","c","7","9">>>>,
  <<"span.div.Card.element[9]@src/B.js", <<"8","2","0","d","3","9","4","c","0","e","f","5">>>>,
  <<"span.div.Card.element[10]@src/B.js", <<"5","f","6","8","c","c","8","1","e","9","b","0">>>>,
  <<"span.div.Card.element[11]@src/B.js", <<"a","2","9","a","f","c","a","d","5","a","8","a">>>>,
  <<"span.div.Card.element[12]@src/B.js", <<"8","8","1","9","2","f","5","d","d","8","f","0">>>>,
  <<"span.div.Card.element[13]@src/B.js", <<"2","d","d","1","2","2","f","e","c","3","8","a">>>>,
  <<"span.div.Card.element[14]@src/B.js", <<"4","4","1","1","4","7","0","9","c","e","4","1">>>>,
  <<"span.div.Card.element[15]@src/B.js", <<"0","c","2","3","f","4","1","d","6","6","5","1">>>>,
  <<"span.span.div.element[0]@src/B.js", <<"d","b","8","a","5","b","8","0","0","5","e","4">>>>,
  <<"span.span.div.element[1]@src/B.js", <<"8","3","4","f","8","3","9","e","0","e","4","f">>>>,
  <<"span.span.div.element[2]@src/B.js", <<"4","e","1","a","6","3","c","5","e","f","8","7">>>>,
  <<"span.span.div.element[3]@src/B.js", <<"5","4","4","6","7","e","2","d","c","0","5","9">>>>,
  <<"span.span.div.element[4]@src/B.js", <<"4","4","d","0","2","e","1","1","e","3","f","0">>>>,
  <<"span.span.div.element[5]@src/B.js", <<"d","a","b","0","e","e","7","e","4","2","2","7">>>>,
  <<"span.span.div.element[6]@src/B.js", <<"0","7","a","6","6","8","6","a","a","d","7","a">>>>,
  <<"span.span.div.element[7]@src/B.js", <<"2","4","f","7","3","e","2","5","8","4","9","1">>>>,
  <<"span.span.div.element[8]@src/B.js", <<"c","4","2","0","1","8","d","6","b","1","2","0">>>>,
  <<"span.span.div.element[9]@src/B.js", <<"f","6","7","3","c","3","3","c","e","e","8","2">>>>,
  <<"span.span.div.element[10]@src/B.js", <<"4","e","7","c","b","8","7","7","8","a","7","d">>>>,
  <<"span.span.div.element[11]@src/B.js", <<"a","4","2","9","f","a","3","e","1","b","4","3">>>>,
  <<"span.span.div.element[12]@src/B.js", <<"d","3","b","a","6","f","d","6","4","c","4","d">>>>,
  <<"span.span.div.element[13]@src/B.js", <<"9","9","d","a","d","e","b","f","0","6","4","1">>>>,
  <<"span.span.div.element[14]@src/B.js", <<"b","2","a","b","e","9","a","d","8","9","f","8">>>>,
  <<"span.span.div.element[15]@src/B.js", <<"f","f","6","5","9","b","0","9","d","8","a","4">>>>,
  <<"span.span.span.element[0]@src/B.js", <<"f","8","6","5","b","a","1","1","6","3","7","6">>>>,
  <<"span.span.span.element[1]@src/B.js", <<"3","b","b","f","f","c","f","f","c","3","b","7">>>>,
  <<"span.span.span.element[2]@src/B.js", <<"5","e","9","d","d","4","1","d","5","5","4","a">>>>,
  <<"span.span.span.element[3]@src/B.js", <<"c","3","c","a","f","b","4","3","b","2","3","d">>>>,
  <<"span.span.span.element[4]@src/B.js", <<"1","b","e","e","d","f","5","b","a","4","a","c">>>>,
  <<"span.span.span.element[5]@src/B.js", <<"f","1","7","8","4","b","e","a","f","8","0","1">>>>,
  <<"span.span.span.element[6]@src/B.js", <<"3","4","3","a","a","c","c","6","1","7","7","8">>>>,
  <<"span.span.span.element[7]@src/B.js", <<"3","2","8","2","d","b","d","4","4","3","3","d">>>>,
  <<"span.span.span.element[8]@src/B.js", <<"f","0","e","b","6","e","7","b","8","e","5","d">>>>,
  <<"span.span.span.element[9]@src/B.js", <<"c","1","1","8","c","d","8","b","e","c","7","1">>>>,
  <<"span.span.span.element[10]@src/B.js", <<"e","d","a","4","0","1","d","e","2","7","e","5">>>>,
  <<"span.span.span.element[11]@src/B.js", <<"5","9","2","6","5","f","7","4","c","f","f","f">>>>,
  <<"span.span.span.element[12]@src/B.js", <<"5","e","1","f","2","7","0","b","b","5","0","8">>>>,
  <<"span.span.span.element[13]@src/B.js", <<"3","2","4","5","0","3","6","b","e","7","5","1">>>>,
  <<"span.span.span.element[14]@src/B.js", <<"d","3","f","a","3","5","5","7","3","e","4","b">>>>,
  <<"span.span.span.element[15]@src/B.js", <<"0","6","e","7","2","5","3","b","5","6","d","4">>>>,
  <<"span.span.Card.element[0]@src/B.js", <<"2","1","1","0","e","4","8","4","4","3","7","9">>>>,
  <<"span.span.Card.element[1]@src/B.js", <<"8","1","5","e","2","8","5","5","c","f","8","e">>>>,
  <<"span.span.Card.element[2]@src/B.js", <<"0","2","6","e","2","f","6","6","0","8","5","d">>>>,
  <<"span.span.Card.element[3]@src/B.js", <<"9","b","5","1","4","1","3","3","f","3","e","6">>>>,
  <<"span.span.Card.element[4]@src/B.js", <<"3","5","3","5","1","c","e","2","d","0","d","7">>>>,
  <<"span.span.Card.element[5]@src/B.js", <<"d","3","c","4","c","2","c","0","9","4","b","4">>>>,
  <<"span.span.Card.element[6]@src/B.js", <<"0","e","e","f","9","a","2","0","9","8","a","f">>>>,
  <<"span.span.Card.element[7]@src/B.js", <<"5","b","2","4","1","2","c","7","4","7","4","7">>>>,
  <<"span.span.Card.element[8]@src/B.js", <<"1","e","f","0","d","d","0","2","7","a","c","3">>>>,
  <<"span.span.Card.element[9]@src/B.js", <<"3","9","2","c","1","b","5","f","4","3","8","9">>>>,
  <<"span.span.Card.element[10]@src/B.js", <<"d","7","1","d","7","d","c","0","d","8","6","f">>>>,
  <<"span.span.Card.element[11]@src/B.js", <<"5","4","0","1","3","8","a","4","d","9","8","4">>>>,
  <<"span.span.Card.element[12]@src/B.js", <<"2","1","f","4","1","3","c","7","b","6","e","9">>>>,
  <<"span.span.Card.element[13]@src/B.js", <<"1","b","b","d","1","6","e","b","c","3","f","f">>>>,
  <<"span.span.Card.element[14]@src/B.js", <<"b","e","1","0","f","2","8","a","f","2","0","8">>>>,
  <<"span.span.Card.element[15]@src/B.js", <<"e","1","3","2","b","5","0","f","9","2","8","c">>>>,
  <<"span.Card.div.element[0]@src/B.js", <<"2","b","c","b","9","f","1","b","a","2","2","1">>>>,
  <<"span.Card.div.element[1]@src/B.js", <<"d","7","4","5","d","f","4","0","9","f","6","8">>>>,
  <<"span.Card.div.element[2]@src/B.js", <<"2","3","f","2","2","4","1","d","5","2","8","9">>>>,
  <<"span.Card.div.element[3]@src/B.js", <<"2","2","c","1","6","2","a","e","5","3","3","b">>>>,
  <<"span.Card.div.element[4]@src/B.js", <<"8","3","2","b","b","e","2","5","4","9","a","9">>>>,
  <<"span.Card.div.element[5]@src/B.js", <<"7","d","8","5","a","a","0","a","c","6","9","2">>>>,
  <<"span.Card.div.element[6]@src/B.js", <<"c","f","7","3","2","6","1","8","8","c","5","2">>>>,
  <<"span.Card.div.element[7]@src/B.js", <<"0","7","e","b","f","4","6","e","7","6","d","b">>>>,
  <<"span.Card.div.element[8]@src/B.js", <<"5","f","8","b","4","c","2","8","0","8","1","d">>>>,
  <<"span.Card.div.element[9]@src/B.js", <<"9","2","7","d","c","6","f","c","f","5","5","d">>>>,
  <<"span.Card.div.element[10]@src/B.js", <<"d","0","6","a","0","3","d","2","a","1","4","2">>>>,
  <<"span.Card.div.element[11]@src/B.js", <<"a","8","0","e","e","5","3","d","9","8","7","a">>>>,
  <<"span.Card.div.element[12]@src/B.js", <<"f","6","a","6","9","e","4","f","b","b","a","9">>>>,
  <<"span.Card.div.element[13]@src/B.js", <<"8","0","4","a","b","0","f","a","1","9","e","f">>>>,
  <<"span.Card.div.element[14]@src/B.js", <<"c","5","d","7","9","5","e","e","4","5","b","d">>>>,
  <<"span.Card.div.element[15]@src/B.js", <<"d","0","e","3","0","5","2","a","4","9","1","7">>>>,
  <<"span.Card.span.element[0]@src/B.js", <<"e","8","2","b","6","f","a","b","d","e","f","7">>>>,
  <<"span.Card.span.element[1]@src/B.js", <<"7","2","7","8","5","9","c","4","4","e","9","6">>>>,
  <<"span.Card.span.element[2]@src/B.js", <<"f","2","f","d","9","e","1","8","0","4","1","5">>>>,
  <<"span.Card.span.element[3]@src/B.js", <<"0","8","d","0","d","b","d","b","0","c","7","1">>>>,
  <<"span.Card.span.element[4]@src/B.js", <<"f","8","1","d","8","9","f","6","9","8","e","6">>>>,
  <<"span.Card.span.element[5]@src/B.js", <<"d","9","b","9","c","a","d","5","7","1","5","0">>>>,
  <<"span.Card.span.element[6]@src/B.js", <<"3","6","3","2","d","7","3","3","4","e","e","8">>>>,
  <<"span.Card.span.element[7]@src/B.js", <<"0","7","0","a","b","a","3","8","9","7","c","1">>>>,
  <<"span.Card.span.element[8]@src/B.js", <<"f","c","1","4","d","d","3","f","0","2","3","d">>>>,
  <<"span.Card.span.element[9]@src/B.js", <<"3","f","e","f","7","7","a","4","d","9","4","1">>>>,
  <<"span.Card.span.element[10]@src/B.js", <<"e","9","c","1","6","c","e","d","5","a","d","2">>>>,
  <<"span.Card.span.element[11]@src/B.js", <<"f","1","9","b","1","9","8","b","1","c","7","c">>>>,
  <<"span.Card.span.element[12]@src/B.js", <<"2","9","b","e","6","6","a","2","f","1","f","9">>>>,
  <<"span.Card.span.element[13]@src/B.js", <<"c","6","e","e","9","7","0","2","c","9","e","5">>>>,
  <<"span.Card.span.element[14]@src/B.js", <<"7","1","6","2","5","6","d","d","c","a","8","e">>>>,
  <<"span.Card.span.element[15]@src/B.js", <<"2","2","e","c","c","8","1","9","0","d","7","8">>>>,
  <<"span.Card.Card.element[0]@src/B.js", <<"2","c","0","a","f","a","f","b","1","7","a","0">>>>,
  <<"span.Card.Card.element[1]@src/B.js", <<"f","1","4","c","e","f","c","b","2","1","a","1">>>>,
  <<"span.Card.Card.element[2]@src/B.js", <<"1","9","b","5","5","0","e","f","8","c","5","1">>>>,
  <<"span.Card.Card.element[3]@src/B.js", <<"6","7","3","d","7","9","7","2","f","6","4","2">>>>,
  <<"span.Card.Card.element[4]@src/B.js", <<"d","6","6","1","e","2","6","1","2","8","e","f">>>>,
  <<"span.Card.Card.element[5]@src/B.js", <<"c","1","3","8","3","8","1","a","c","e","f","4">>>>,
  <<"span.Card.Card.element[6]@src/B.js", <<"a","d","6","6","c","6","6","2","e","9","2","9">>>>,
  <<"span.Card.Card.element[7]@src/B.js", <<"9","4","0","d","0","4","6","1","5","5","a","e">>>>,
  <<"span.Card.Card.element[8]@src/B.js", <<"e","a","a","f","0","7","e","a","f","6","d","9">>>>,
  <<"span.Card.Card.element[9]@src/B.js", <<"c","9","3","4","6","1","c","8","5","e","d","0">>>>,
  <<"span.Card.Card.element[10]@src/B.js", <<"e","6","b","8","e","9","9","4","b","4","7","2">>>>,
  <<"span.Card.Card.element[11]@src/B.js", <<"b","e","b","0","4","d","7","a","0","d","c","d">>>>,
  <<"span.Card.Card.element[12]@src/B.js", <<"e","3","a","3","7","9","6","1","0","6","9","2">>>>,
  <<"span.Card.Card.element[13]@src/B.js", <<"6","4","5","4","1","4","6","f","8","d","a","f">>>>,
  <<"span.Card.Card.element[14]@src/B.js", <<"5","3","d","a","8","5","0","7","9","6","e","7">>>>,
  <<"span.Card.Card.element[15]@src/B.js", <<"d","b","4","3","3","e","c","8","5","b","0","e">>>>,
  <<"Card.div.div.element[0]@src/B.js", <<"9","b","b","e","1","4","c","f","5","7","b","8">>>>,
  <<"Card.div.div.element[1]@src/B.js", <<"6","5","e","f","d","c","2","b","d","1","f","8">>>>,
  <<"Card.div.div.element[2]@src/B.js", <<"e","0","7","9","0","e","2","f","1","2","b","3">>>>,
  <<"Card.div.div.element[3]@src/B.js", <<"5","d","8","9","c","b","d","0","b","c","3","b">>>>,
  <<"Card.div.div.element[4]@src/B.js", <<"a","a","e","e","d","7","c","5","f","6","1","b">>>>,
  <<"Card.div.div.element[5]@src/B.js", <<"1","6","6","a","a","6","3","2","0","d","3","e">>>>,
  <<"Card.div.div.element[6]@src/B.js", <<"1","8","b","0","8","3","7","a","2","c","a","e">>>>,
  <<"Card.div.div.element[7]@src/B.js", <<"b","b","f","c","b","2","7","5","c","5","7","8">>>>,
  <<"Card.div.div.element[8]@src/B.js", <<"b","4","d","d","f","d","f","5","9","3","4","f">>>>,
  <<"Card.div.div.element[9]@src/B.js", <<"4","5","1","c","6","9","d","3","e","7","e","5">>>>,
  <<"Card.div.div.element[10]@src/B.js", <<"4","3","5","f","3","5","2","6","4","3","c","b">>>>,
  <<"Card.div.div.element[11]@src/B.js", <<"5","7","f","e","4","e","4","c","3","b","a","e">>>>,
  <<"Card.div.div.element[12]@src/B.js", <<"9","f","f","f","0","7","4","b","2","3","e","e">>>>,
  <<"Card.div.div.element[13]@src/B.js", <<"1","7","0","4","8","5","a","7","7","2","5","3">>>>,
  <<"Card.div.div.element[14]@src/B.js", <<"b","0","f","4","f","1","d","f","3","7","5","b">>>>,
  <<"Card.div.div.element[15]@src/B.js", <<"e","7","2","9","1","3","3","0","1","6","4","5">>>>,
  <<"Card.div.span.element[0]@src/B.js", <<"a","b","a","3","0","9","6","5","c","f","1","9">>>>,
  <<"Card.div.span.element[1]@src/B.js", <<"b","2","c","c","7","8","7","9","4","6","a","c">>>>,
  <<"Card.div.span.element[2]@src/B.js", <<"b","8","0","d","f","1","7","6","2","c","9","7">>>>,
  <<"Card.div.span.element[3]@src/B.js", <<"7","0","0","3","1","5","6","d","b","4","2","8">>>>,
  <<"Card.div.span.element[4]@src/B.js", <<"7","a","c","f","5","9","5","0","3","2","8","f">>>>,
  <<"Card.div.span.element[5]@src/B.js", <<"0","9","d","c","6","6","8","b","e","4","4","5">>>>,
  <<"Card.div.span.element[6]@src/B.js", <<"a","1","d","e","a","c","b","5","9","4","a","8">>>>,
  <<"Card.div.span.element[7]@src/B.js", <<"9","2","6","6","8","3","3","d","d","1","1","f">>>>,
  <<"Card.div.span.element[8]@src/B.js", <<"6","2","c","3","2","5","3","7","1","b","8","1">>>>,
  <<"Card.div.span.element[9]@src/B.js", <<"6","3","2","8","8","1","d","3","2","4","c","4">>>>,
  <<"Card.div.span.element[10]@src/B.js", <<"c","3","1","8","0","0","0","a","c","0","5","6">>>>,
  <<"Card.div.span.element[11]@src/B.js", <<"c","b","4","e","6","1","3","a","8","a","f","9">>>>,
  <<"Card.div.span.element[12]@src/B.js", <<"e","b","1","a","6","2","1","2","9","6","4","b">>>>,
  <<"Card.div.span.element[13]@src/B.js", <<"8","8","e","f","c","9","c","9","8","b","5","e">>>>,
  <<"Card.div.span.element[14]@src/B.js", <<"e","f","d","e","7","e","5","3","7","6","c","8">>>>,
  <<"Card.div.span.element[15]@src/B.js", <<"2","5","2","4","3","3","b","7","b","1","a","9">>>>,
  <<"Card.div.Card.element[0]@src/B.js", <<"7","a","1","a","5","c","6","b","d","d","0","9">>>>,
  <<"Card.div.Card.element[1]@src/B.js", <<"7","2","6","a","0","d","f","a","a","3","2","f">>>>,
  <<"Card.div.Card.element[2]@src/B.js", <<"6","4","d","0","c","a","3","4","d","f","5","f">>>>,
  <<"Card.div.Card.element[3]@src/B.js", <<"f","8","d","0","9","c","f","0","7","5","1","0">>>>,
  <<"Card.div.Card.element[4]@src/B.js", <<"b","c","d","3","f","1","5","4","5","2","5","9">>>>,
  <<"Card.div.Card.element[5]@src/B.js", <<"2","b","1","9","9","8","8","5","0","e","a","a">>>>,
  <<"Card.div.Card.element[6]@src/B.js", <<"4","e","0","4","c","0","5","f","a","1","5","4">>>>,
  <<"Card.div.Card.element[7]@src/B.js", <<"4","f","8","a","8","f","8","3","c","f","c","9">>>>,
  <<"Card.div.Card.element[8]@src/B.js", <<"3","6","d","3","c","4","0","9","b","2","3","f">>>>,
  <<"Card.div.Card.element[9]@src/B.js", <<"3","9","5","d","7","f","3","9","4","f","e","6">>>>,
  <<"Card.div.Card.element[10]@src/B.js", <<"9","a","2","4","9","8","2","3","c","6","d","e">>>>,
  <<"Card.div.Card.element[11]@src/B.js", <<"a","b","6","3","c","0","6","e","8","b","6","0">>>>,
  <<"Card.div.Card.element[12]@src/B.js", <<"f","c","c","5","c","2","1","5","5","a","6","e">>>>,
  <<"Card.div.Card.element[13]@src/B.js", <<"0","9","d","9","0","4","d","2","2","f","c","7">>>>,
  <<"Card.div.Card.element[14]@src/B.js", <<"7","6","e","e","c","2","4","f","9","3","b","f">>>>,
  <<"Card.div.Card.element[15]@src/B.js", <<"c","9","f","7","9","1","a","5","5","4","8","e">>>>,
  <<"Card.span.div.element[0]@src/B.js", <<"1","8","c","c","1","5","a","e","1","7","a","4">>>>,
  <<"Card.span.div.element[1]@src/B.js", <<"5","2","b","2","b","0","9","4","9","8","2","1">>>>,
  <<"Card.span.div.element[2]@src/B.js", <<"1","1","7","1","2","a","f","0","3","0","d","6">>>>,
  <<"Card.span.div.element[3]@src/B.js", <<"d","9","3","f","9","4","4","7","9","8","b","a">>>>,
  <<"Card.span.div.element[4]@src/B.js", <<"c","d","0","0","a","a","d","9","8","d","b","d">>>>,
  <<"Card.span.div.element[5]@src/B.js", <<"f","8","c","3","1","1","a","1","7","2","2","6">>>>,
  <<"Card.span.div.element[6]@src/B.js", <<"c","a","d","9","9","e","9","8","1","0","c","6">>>>,
  <<"Card.span.div.element[7]@src/B.js", <<"2","a","8","9","3","7","4","1","0","c","9","f">>>>,
  <<"Card.span.div.element[8]@src/B.js", <<"9","4","9","9","d","d","a","2","1","5","c","d">>>>,
  <<"Card.span.div.element[9]@src/B.js", <<"6","0","7","6","1","7","e","9","4","c","2","1">>>>,
  <<"Card.span.div.element[10]@src/B.js", <<"8","4","1","c","2","7","8","b","8","b","4","c">>>>,
  <<"Card.span.div.element[11]@src/B.js", <<"f","1","a","0","3","4","e","c","a","9","5","9">>>>,
  <<"Card.span.div.element[12]@src/B.js", <<"0","3","0","2","d","b","0","d","9","b","e","1">>>>,
  <<"Card.span.div.element[13]@src/B.js", <<"f","1","7","7","a","d","a","d","b","f","c","4">>>>,
  <<"Card.span.div.element[14]@src/B.js", <<"5","a","3","a","4","7","5","2","a","1","c","8">>>>,
  <<"Card.span.div.element[15]@src/B.js", <<"f","2","7","a","a","0","a","c","8","5","d","8">>>>,
  <<"Card.span.span.element[0]@src/B.js", <<"f","e","b","7","8","d","6","7","1","c","5","3">>>>,
  <<"Card.span.span.element[1]@src/B.js", <<"9","d","7","9","4","5","8","e","c","3","1","0">>>>,
  <<"Card.span.span.element[2]@src/B.js", <<"5","0","3","8","b","9","7","7","d","b","4","1">>>>,
  <<"Card.span.span.element[3]@src/B.js", <<"f","3","b","e","4","4","9","3","a","e","9","b">>>>,
  <<"Card.span.span.element[4]@src/B.js", <<"c","6","0","d","4","5","9","5","a","7","3","b">>>>,
  <<"Card.span.span.element[5]@src/B.js", <<"7","2","4","5","e","0","9","9","9","6","b","4">>>>,
  <<"Card.span.span.element[6]@src/B.js", <<"2","b","f","7","7","7","e","5","6","1","4","9">>>>,
  <<"Card.span.span.element[7]@src/B.js", <<"0","4","7","7","6","5","2","c","9","f","2","5">>>>,
  <<"Card.span.span.element[8]@src/B.js", <<"a","0","e","7","f","9","5","6","8","2","4","3">>>>,
  <<"Card.span.span.element[9]@src/B.js", <<"3","3","8","d","f","9","2","d","6","e","c","9">>>>,
  <<"Card.span.span.element[10]@src/B.js", <<"6","2","2","4","4","c","b","0","a","d","d","9">>>>,
  <<"Card.span.span.element[11]@src/B.js", <<"9","d","b","6","a","c","9","a","f","8","1","1">>>>,
  <<"Card.span.span.element[12]@src/B.js", <<"c","1","1","5","8","5","7","5","4","1","6","2">>>>,
  <<"Card.span.span.element[13]@src/B.js", <<"6","a","e","d","a","3","b","3","6","7","5","4">>>>,
  <<"Card.span.span.element[14]@src/B.js", <<"f","5","1","e","2","5","a","2","e","2","4","6">>>>,
  <<"Card.span.span.element[15]@src/B.js", <<"f","5","8","8","c","b","c","5","0","0","e","0">>>>,
  <<"Card.span.Card.element[0]@src/B.js", <<"e","f","3","9","4","3","4","8","a","f","5","1">>>>,
  <<"Card.span.Card.element[1]@src/B.js", <<"1","c","5","4","c","9","5","5","a","7","7","4">>>>,
  <<"Card.span.Card.element[2]@src/B.js", <<"8","3","d","8","0","c","f","a","2","e","5","2">>>>,
  <<"Card.span.Card.element[3]@src/B.js", <<"c","b","3","c","2","5","b","0","d","5","d","e">>>>,
  <<"Card.span.Card.element[4]@src/B.js", <<"4","b","6","4","7","8","8","7","0","e","a","f">>>>,
  <<"Card.span.Card.element[5]@src/B.js", <<"a","0","4","6","4","a","5","f","5","5","5","4">>>>,
  <<"Card.span.Card.element[6]@src/B.js", <<"6","7","2","f","f","9","f","b","0","e","4","c">>>>,
  <<"Card.span.Card.element[7]@src/B.js", <<"7","1","3","b","4","4","5","8","a","1","6","7">>>>,
  <<"Card.span.Card.element[8]@src/B.js", <<"8","8","c","5","5","f","e","9","6","2","2","b">>>>,
  <<"Card.span.Card.element[9]@src/B.js", <<"8","e","5","a","7","c","f","3","6","3","0","b">>>>,
  <<"Card.span.Card.element[10]@src/B.js", <<"3","d","5","c","7","3","a","3","1","d","9","1">>>>,
  <<"Card.span.Card.element[11]@src/B.js", <<"7","3","e","0","e","b","c","9","b","4","5","c">>>>,
  <<"Card.span.Card.element[12]@src/B.js", <<"b","7","e","4","0","d","0","2","0","d","8","5">>>>,
  <<"Card.span.Card.element[13]@src/B.js", <<"1","9","e","c","0","5","a","6","2","2","4","1">>>>,
  <<"Card.span.Card.element[14]@src/B.js", <<"9","d","7","1","4","d","6","9","2","2","d","7">>>>,
  <<"Card.span.Card.element[15]@src/B.js", <<"c","f","2","f","9","b","d","e","1","5","2","d">>>>,
  <<"Card.Card.div.element[0]@src/B.js", <<"2","5","8","2","e","7","b","3","4","d","b","1">>>>,
  <<"Card.Card.div.element[1]@src/B.js", <<"9","e","5","4","d","2","b","a","d","5","3","8">>>>,
  <<"Card.Card.div.element[2]@src/B.js", <<"e","c","a","2","7","d","4","5","0","9","3","6">>>>,
  <<"Card.Card.div.element[3]@src/B.js", <<"f","2","b","7","6","d","f","f","a","5","0","6">>>>,
  <<"Card.Card.div.element[4]@src/B.js", <<"6","4","2","1","2","4","7","2","3","4","0","0">>>>,
  <<"Card.Card.div.element[5]@src/B.js", <<"8","0","8","d","0","d","b","5","1","6","e","5">>>>,
  <<"Card.Card.div.element[6]@src/B.js", <<"f","e","1","b","5","6","a","5","5","6","3","c">>>>,
  <<"Card.Card.div.element[7]@src/B.js", <<"d","e","d","2","e","0","7","f","c","8","d","9">>>>,
  <<"Card.Card.div.element[8]@src/B.js", <<"9","4","5","0","4","9","5","6","7","b","f","7">>>>,
  <<"Card.Card.div.element[9]@src/B.js", <<"9","2","c","9","7","7","3","4","7","0","4","0">>>>,
  <<"Card.Card.div.element[10]@src/B.js", <<"2","d","5","0","1","a","7","0","c","8","1","f">>>>,
  <<"Card.Card.div.element[11]@src/B.js", <<"b","1","b","0","5","2","c","4","7","0","6","0">>>>,
  <<"Card.Card.div.element[12]@src/B.js", <<"1","9","3","d","b","8","5","6","1","c","8","3">>>>,
  <<"Card.Card.div.element[13]@src/B.js", <<"c","0","4","5","2","7","3","4","5","d","9","7">>>>,
  <<"Card.Card.div.element[14]@src/B.js", <<"4","2","0","a","1","3","5","8","4","5","2","a">>>>,
  <<"Card.Card.div.element[15]@src/B.js", <<"c","4","0","e","a","2","6","9","a","f","1","7">>>>,
  <<"Card.Card.span.element[0]@src/B.js", <<"8","e","6","6","8","b","c","2","e","b","8","2">>>>,
  <<"Card.Card.span.element[1]@src/B.js", <<"3","d","0","4","3","0","b","8","0","c","7","9">>>>,
  <<"Card.Card.span.element[2]@src/B.js", <<"c","b","0","f","1","1","a","a","2","e","2","8">>>>,
  <<"Card.Card.span.element[3]@src/B.js", <<"f","f","b","8","4","c","c","2","b","d","8","1">>>>,
  <<"Card.Card.span.element[4]@src/B.js", <<"2","6","e","d","2","6","5","d","c","0","b","b">>>>,
  <<"Card.Card.span.element[5]@src/B.js", <<"8","8","c","8","2","1","b","c","c","5","c","4">>>>,
  <<"Card.Card.span.element[6]@src/B.js", <<"c","c","7","b","3","6","4","1","3","d","3","a">>>>,
  <<"Card.Card.span.element[7]@src/B.js", <<"7","2","3","8","c","f","0","3","7","3","4","b">>>>,
  <<"Card.Card.span.element[8]@src/B.js", <<"2","2","e","2","e","7","9","5","b","a","2","0">>>>,
  <<"Card.Card.span.element[9]@src/B.js", <<"5","6","1","a","2","8","8","9","6","5","a","3">>>>,
  <<"Card.Card.span.element[10]@src/B.js", <<"b","4","4","b","6","9","1","a","4","8","1","6">>>>,
  <<"Card.Card.span.element[11]@src/B.js", <<"2","a","a","d","c","e","a","c","6","b","1","f">>>>,
  <<"Card.Card.span.element[12]@src/B.js", <<"e","3","5","2","c","1","6","0","9","2","a","8">>>>,
  <<"Card.Card.span.element[13]@src/B.js", <<"c","4","6","5","f","9","3","2","9","a","d","a">>>>,
  <<"Card.Card.span.element[14]@src/B.js", <<"f","8","6","0","0","d","4","5","7","b","0","5">>>>,
  <<"Card.Card.span.element[15]@src/B.js", <<"0","0","7","6","0","0","3","5","b","d","d","8">>>>,
  <<"Card.Card.Card.element[0]@src/B.js", <<"f","0","7","0","2","b","8","e","a","4","a","8">>>>,
  <<"Card.Card.Card.element[1]@src/B.js", <<"0","1","b","b","c","1","e","5","e","d","d","0">>>>,
  <<"Card.Card.Card.element[2]@src/B.js", <<"1","f","1","6","5","8","8","b","a","d","9","0">>>>,
  <<"Card.Card.Card.element[3]@src/B.js", <<"e","6","3","4","5","9","f","1","5","6","b","5">>>>,
  <<"Card.Card.Card.element[4]@src/B.js", <<"0","9","2","5","0","8","f","b","2","4","5","0">>>>,
  <<"Card.Card.Card.element[5]@src/B.js", <<"4","f","0","d","b","c","0","6","2","8","c","5">>>>,
  <<"Card.Card.Card.element[6]@src/B.js", <<"c","a","7","5","f","0","9","d","c","e","a","b">>>>,
  <<"Card.Card.Card.element[7]@src/B.js", <<"4","3","8","8","8","a","1","8","5","f","0","6">>>>,
  <<"Card.Card.Card.element[8]@src/B.js", <<"b","8","3","0","3","9","8","6","5","0","3","8">>>>,
  <<"Card.Card.Card.element[9]@src/B.js", <<"5","d","7","f","8","4","5","e","6","9","5","6">>>>,
  <<"Card.Card.Card.element[10]@src/B.js", <<"5","3","9","4","3","7","d","3","2","6","6","2">>>>,
  <<"Card.Card.Card.element[11]@src/B.js", <<"0","1","0","0","7","0","a","b","6","1","2","1">>>>,
  <<"Card.Card.Card.element[12]@src/B.js", <<"9","5","e","6","f","9","1","5","d","4","e","b">>>>,
  <<"Card.Card.Card.element[13]@src/B.js", <<"9","f","f","f","d","4","6","f","b","c","f","8">>>>,
  <<"Card.Card.Card.element[14]@src/B.js", <<"6","4","e","d","c","5","6","5","3","3","5","d">>>>,
  <<"Card.Card.Card.element[15]@src/B.js", <<"e","1","4","3","9","d","2","2","c","3","c","7">>>>,
  <<"element[0]@", <<"4","a","3","4","d","6","2","2","a","9","2","f">>>>,
  <<"element[1]@", <<"f","e","e","1","4","4","4","4","8","3","f","e">>>>,
  <<"element[2]@", <<"0","6","d","7","4","4","9","2","e","a","5","0">>>>,
  <<"element[3]@", <<"0","2","4","6","b","6","7","b","e","9","9","a">>>>,
  <<"element[4]@", <<"3","1","2","d","1","8","8","1","7","0","c","1">>>>,
  <<"element[5]@", <<"4","5","2","4","9","3","7","3","0","0","b","5">>>>,
  <<"element[6]@", <<"f","4","a","5","8","8","6","e","a","3","e","9">>>>,
  <<"element[7]@", <<"7","9","7","6","9","c","e","f","5","9","3","b">>>>,
  <<"element[8]@", <<"a","0","8","b","9","0","6","f","a","1","a","4">>>>,
  <<"element[9]@", <<"5","3","e","4","1","2","a","1","8","0","6","d">>>>,
  <<"element[10]@", <<"9","7","2","9","7","6","d","e","8","8","b","c">>>>,
  <<"element[11]@", <<"9","6","b","4","8","4","d","7","9","3","e","d">>>>,
  <<"element[12]@", <<"c","8","1","4","b","5","3","d","a","c","2","0">>>>,
  <<"element[13]@", <<"f","6","e","1","5","b","3","8","8","8","b","8">>>>,
  <<"element[14]@", <<"3","9","9","0","9","2","f","4","c","d","2","1">>>>,
  <<"element[15]@", <<"3","7","0","b","0","a","b","6","c","1","7","6">>>>,
  <<"div.element[0]@", <<"6","0","3","7","f","5","f","0","6","c","f","9">>>>,
  <<"div.element[1]@", <<"9","9","5","d","5","b","b","d","d","e","d","a">>>>,
  <<"div.element[2]@", <<"6","d","4","5","2","6","1","5","c","0","6","f">>>>,
  <<"div.element[3]@", <<"e","5","e","1","5","c","b","5","b","f","7","d">>>>,
  <<"div.element[4]@", <<"7","8","0","1","5","c","8","1","b","6","0","8">>>>,
  <<"div.element[5]@", <<"f","9","d","8","0","4","5","7","1","1","2","f">>>>,
  <<"div.element[6]@", <<"b","8","1","d","2","c","b","1","6","6","8","f">>>>,
  <<"div.element[7]@", <<"4","f","b","4","4","b","4","d","f","5","9","d">>>>,
  <<"div.element[8]@", <<"0","a","f","4","1","8","2","8","b","9","5","2">>>>,
  <<"div.element[9]@", <<"f","3","e","9","d","5","9","9","2","e","9","5">>>>,
  <<"div.element[10]@", <<"7","6","b","a","9","1","e","f","2","d","9","2">>>>,
  <<"div.element[11]@", <<"4","a","1","1","8","b","5","8","b","7","c","0">>>>,
  <<"div.element[12]@", <<"c","e","7","6","e","c","f","f","d","b","c","b">>>>,
  <<"div.element[13]@", <<"8","1","1","b","d","9","b","f","7","d","e","0">>>>,
  <<"div.element[14]@", <<"e","f","3","d","7","d","c","0","e","f","3","b">>>>,
  <<"div.element[15]@", <<"5","3","5","a","a","4","e","1","4","7","d","c">>>>,
  <<"span.element[0]@", <<"d","0","f","a","3","d","f","5","8","6","e","6">>>>,
  <<"span.element[1]@", <<"b","4","4","d","2","9","f","8","6","f","c","7">>>>,
  <<"span.element[2]@", <<"b","7","c","8","1","2","f","a","a","3","f","a">>>>,
  <<"span.element[3]@", <<"b","0","0","3","5","2","6","9","f","6","f","1">>>>,
  <<"span.element[4]@", <<"a","1","3","2","3","b","e","2","e","c","2","0">>>>,
  <<"span.element[5]@", <<"1","8","6","6","7","b","0","b","7","3","5","b">>>>,
  <<"span.element[6]@", <<"8","1","2","f","9","9","f","6","8","b","5","7">>>>,
  <<"span.element[7]@", <<"2","8","a","7","e","d","4","2","e","5","1","0">>>>,
  <<"span.element[8]@", <<"3","f","1","8","6","3","4","2","6","0","3","c">>>>,
  <<"span.element[9]@", <<"9","0","5","c","6","a","8","2","7","7","2","1">>>>,
  <<"span.element[10]@", <<"d","9","3","0","1","a","1","c","0","1","7","1">>>>,
  <<"span.element[11]@", <<"9","1","b","b","8","c","c","b","0","a","f","2">>>>,
  <<"span.element[12]@", <<"5","f","d","9","7","8","4","4","a","a","a","8">>>>,
  <<"span.element[13]@", <<"a","5","1","d","1","c","b","a","c","6","4","1">>>>,
  <<"span.element[14]@", <<"b","0","4","5","3","5","0","9","d","0","e","4">>>>,
  <<"span.element[15]@", <<"f","4","d","4","9","6","0","c","a","4","0","c">>>>,
  <<"Card.element[0]@", <<"1","3","b","d","c","9","e","e","b","e","5","b">>>>,
  <<"Card.element[1]@", <<"9","6","0","b","e","d","8","1","1","d","c","e">>>>,
  <<"Card.element[2]@", <<"c","7","4","4","4","8","0","5","6","7","b","f">>>>,
  <<"Card.element[3]@", <<"7","d","a","b","f","c","1","c","e","9","9","c">>>>,
  <<"Card.element[4]@", <<"e","7","2","0","3","2","f","1","4","e","f","b">>>>,
  <<"Card.element[5]@", <<"9","a","1","1","9","e","4","a","d","7","3","2">>>>,
  <<"Card.element[6]@", <<"3","7","b","1","a","c","e","3","5","f","f","2">>>>,
  <<"Card.element[7]@", <<"c","f","8","0","0","0","f","5","b","2","4","2">>>>,
  <<"Card.element[8]@", <<"8","6","3","5","2","c","8","5","c","5","1","2">>>>,
  <<"Card.element[9]@", <<"f","5","4","0","d","7","3","b","7","7","4","4">>>>,
  <<"Card.element[10]@", <<"9","7","0","2","5","f","f","a","c","d","c","7">>>>,
  <<"Card.element[11]@", <<"c","6","0","5","f","a","4","d","d","5","7","2">>>>,
  <<"Card.element[12]@", <<"d","4","f","5","3","7","a","8","d","6","b","9">>>>,
  <<"Card.element[13]@", <<"1","d","b","3","6","3","4","4","f","7","3","d">>>>,
  <<"Card.element[14]@", <<"a","a","c","2","1","b","d","3","4","3","3","3">>>>,
  <<"Card.element[15]@", <<"1","a","6","c","3","0","7","1","7","b","9","a">>>>,
  <<"div.div.element[0]@", <<"3","0","8","d","d","9","1","0","6","7","c","1">>>>,
  <<"div.div.element[1]@", <<"a","8","8","2","5","6","f","2","f","f","c","6">>>>,
  <<"div.div.element[2]@", <<"d","f","d","2","3","d","1","6","a","2","3","0">>>>,
  <<"div.div.element[3]@", <<"b","7","3","6","e","b","8","7","1","4","6","6">>>>,
  <<"div.div.element[4]@", <<"b","9","a","3","f","e","2","f","8","c","a","f">>>>,
  <<"div.div.element[5]@", <<"9","5","5","5","b","3","c","3","e","4","f","9">>>>,
  <<"div.div.element[6]@", <<"8","7","2","8","2","0","e","4","2","0","6","2">>>>,
  <<"div.div.element[7]@", <<"9","1","9","a","2","4","3","7","7","4","5","0">>>>,
  <<"div.div.element[8]@", <<"9","4","4","f","c","3","b","7","8","b","e","f">>>>,
  <<"div.div.element[9]@", <<"7","1","2","e","4","4","6","6","d","1","6","9">>>>,
  <<"div.div.element[10]@", <<"d","b","0","2","a","c","f","3","4","a","9","6">>>>,
  <<"div.div.element[11]@", <<"2","b","1","2","b","3","7","5","4","4","7","6">>>>,
  <<"div.div.element[12]@", <<"e","7","5","c","c","9","f","b","6","7","5","f">>>>,
  <<"div.div.element[13]@", <<"4","0","5","a","c","f","6","6","0","2","2","5">>>>,
  <<"div.div.element[14]@", <<"2","f","7","1","8","3","7","9","8","b","4","3">>>>,
  <<"div.div.element[15]@", <<"6","c","3","1","0","4","6","6","2","d","b","c">>>>,
  <<"div.span.element[0]@", <<"9","1","1","0","4","b","2","2","e","c","d","b">>>>,
  <<"div.span.element[1]@", <<"e","e","c","c","d","d","d","d","c","7","f","d">>>>,
  <<"div.span.element[2]@", <<"0","a","3","6","e","7","5","7","0","f","8","e">>>>,
  <<"div.span.element[3]@", <<"a","e","a","e","6","d","2","4","9","3","0","8">>>>,
  <<"div.span.element[4]@", <<"a","0","8","3","8","5","6","c","f","b","b","4">>>>,
  <<"div.span.element[5]@", <<"b","e","7","e","c","c","a","3","f","1","e","5">>>>,
  <<"div.span.element[6]@", <<"f","6","2","a","1","9","5","5","2","4","f","6">>>>,
  <<"div.span.element[7]@", <<"7","8","b","9","c","6","0","5","2","4","b","8">>>>,
  <<"div.span.element[8]@", <<"2","c","2","c","7","a","c","0","c","2","3","e">>>>,
  <<"div.span.element[9]@", <<"b","5","f","6","8","6","f","8","6","2","f","f">>>>,
  <<"div.span.element[10]@", <<"7","7","e","f","8","c","9","1","9","f","6","5">>>>,
  <<"div.span.element[11]@", <<"d","1","6","7","f","a","b","c","a","2","e","0">>>>,
  <<"div.span.element[12]@", <<"4","a","e","9","2","a","5","7","b","6","a","9">>>>,
  <<"div.span.element[13]@", <<"1","a","7","1","a","3","2","0","5","7","2","1">>>>,
  <<"div.span.element[14]@", <<"8","e","3","e","4","8","0","b","9","f","4","d">>>>,
  <<"div.span.element[15]@", <<"5","5","a","3","9","d","9","0","8","0","c","4">>>>,
  <<"div.Card.element[0]@", <<"d","4","5","7","c","c","2","9","4","a","f","b">>>>,
  <<"div.Card.element[1]@", <<"5","d","2","0","0","7","a","b","2","9","a","b">>>>,
  <<"div.Card.element[2]@", <<"1","2","e","d","7","e","e","3","b","5","b","6">>>>,
  <<"div.Card.element[3]@", <<"d","b","5","3","8","a","1","6","2","0","7","5">>>>,
  <<"div.Card.element[4]@", <<"c","1","d","8","2","0","f","f","4","0","8","0">>>>,
  <<"div.Card.element[5]@", <<"3","4","d","c","e","b","2","2","b","0","e","4">>>>,
  <<"div.Card.element[6]@", <<"3","b","f","1","8","b","7","d","d","3","1","3">>>>,
  <<"div.Card.element[7]@", <<"8","0","7","7","4","d","1","6","f","9","5","e">>>>,
  <<"div.Card.element[8]@", <<"b","3","0","3","f","7","a","5","f","5","1","2">>>>,
  <<"div.Card.element[9]@", <<"6","9","4","6","6","4","b","4","0","c","c","f">>>>,
  <<"div.Card.element[10]@", <<"2","d","f","1","c","f","4","7","d","2","5","4">>>>,
  <<"div.Card.element[11]@", <<"0","c","0","2","1","a","b","3","2","e","1","f">>>>,
  <<"div.Card.element[12]@", <<"b","c","b","4","d","2","1","8","4","a","e","f">>>>,
  <<"div.Card.element[13]@", <<"c","a","d","1","b","f","f","e","2","4","e","2">>>>,
  <<"div.Card.element[14]@", <<"d","0","e","3","a","7","3","0","9","c","f","3">>>>,
  <<"div.Card.element[15]@", <<"d","2","2","d","1","e","6","d","d","a","c","e">>>>,
  <<"span.div.element[0]@", <<"7","4","6","9","b","c","7","0","2","3","8","3">>>>,
  <<"span.div.element[1]@", <<"1","f","2","4","7","e","5","e","f","3","c","3">>>>,
  <<"span.div.element[2]@", <<"c","2","6","a","3","9","8","4","c","2","2","c">>>>,
  <<"span.div.element[3]@", <<"4","7","8","a","6","c","b","5","5","7","1","a">>>>,
  <<"span.div.element[4]@", <<"e","3","d","a","f","d","0","4","9","9","2","2">>>>,
  <<"span.div.element[5]@", <<"0","3","5","9","c","a","7","2","e","0","5","b">>>>,
  <<"span.div.element[6]@", <<"c","6","7","d","d","9","b","1","1","d","3","1">>>>,
  <<"span.div.element[7]@", <<"1","d","e","3","7","2","6","0","9","c","d","f">>>>,
  <<"span.div.element[8]@", <<"f","d","f","5","7","3","9","6","f","7","3","e">>>>,
  <<"span.div.element[9]@", <<"a","b","c","4","6","9","5","f","e","0","1","4">>>>,
  <<"span.div.element[10]@", <<"f","2","4","3","4","9","2","9","4","e","0","9">>>>,
  <<"span.div.element[11]@", <<"9","9","5","c","5","0","0","d","1","d","b","b">>>>,
  <<"span.div.element[12]@", <<"9","c","c","e","5","9","1","5","b","2","1","f">>>>,
  <<"span.div.element[13]@", <<"3","1","d","f","0","5","d","e","2","1","9","c">>>>,
  <<"span.div.element[14]@", <<"4","a","e","9","b","5","c","2","9","7","8","9">>>>,
  <<"span.div.element[15]@", <<"c","3","b","9","7","4","c","0","3","0","4","7">>>>,
  <<"span.span.element[0]@", <<"1","f","f","f","f","7","9","c","e","7","8","6">>>>,
  <<"span.span.element[1]@", <<"1","b","b","4","6","5","5","4","c","2","9","f">>>>,
  <<"span.span.element[2]@", <<"7","a","7","8","a","7","6","7","2","2","2","f">>>>,
  <<"span.span.element[3]@", <<"3","7","5","f","5","0","e","4","e","2","5","d">>>>,
  <<"span.span.element[4]@", <<"0","6","d","4","1","2","8","d","3","9","8","0">>>>,
  <<"span.span.element[5]@", <<"8","9","c","4","d","d","1","d","b","f","9","0">>>>,
  <<"span.span.element[6]@", <<"e","2","9","e","b","3","5","0","c","e","f","5">>>>,
  <<"span.span.element[7]@", <<"c","8","9","e","4","f","1","1","e","b","7","f">>>>,
  <<"span.span.element[8]@", <<"3","7","3","8","7","e","2","c","d","4","6","d">>>>,
  <<"span.span.element[9]@", <<"6","2","f","9","d","f","2","7","0","e","2","d">>>>,
  <<"span.span.element[10]@", <<"c","5","a","9","c","4","7","d","5","0","9","6">>>>,
  <<"span.span.element[11]@", <<"f","7","0","0","1","0","e","9","d","f","9","5">>>>,
  <<"span.span.element[12]@", <<"7","0","2","e","8","b","6","c","9","9","2","b">>>>,
  <<"span.span.element[13]@", <<"2","f","0","1","8","6","6","3","2","6","1","5">>>>,
  <<"span.span.element[14]@", <<"1","7","f","d","e","a","7","c","e","a","4","1">>>>,
  <<"span.span.element[15]@", <<"a","f","4","7","2","1","1","1","8","c","9","5">>>>,
  <<"span.Card.element[0]@", <<"7","9","9","d","c","a","8","d","1","6","9","0">>>>,
  <<"span.Card.element[1]@", <<"6","a","1","e","7","e","0","7","5","5","6","c">>>>,
  <<"span.Card.element[2]@", <<"2","d","a","e","8","a","e","3","6","5","f","7">>>>,
  <<"span.Card.element[3]@", <<"2","3","c","d","1","0","9","e","5","2","4","5">>>>,
  <<"span.Card.element[4]@", <<"6","1","4","c","d","6","b","7","3","0","3","7">>>>,
  <<"span.Card.element[5]@", <<"d","9","0","7","d","5","5","e","1","a","e","3">>>>,
  <<"span.Card.element[6]@", <<"c","c","c","e","7","3","2","9","5","2","4","f">>>>,
  <<"span.Card.element[7]@", <<"7","8","6","1","2","6","b","2","e","1","1","6">>>>,
  <<"span.Card.element[8]@", <<"b","5","d","b","2","d","3","3","0","a","b","c">>>>,
  <<"span.Card.element[9]@", <<"6","d","e","0","6","1","2","2","c","0","2","2">>>>,
  <<"span.Card.element[10]@", <<"a","1","a","f","7","1","e","2","d","e","9","3">>>>,
  <<"span.Card.element[11]@", <<"6","7","f","3","f","e","5","9","e","a","2","7">>>>,
  <<"span.Card.element[12]@", <<"e","e","4","5","9","7","4","8","5","2","c","e">>>>,
  <<"span.Card.element[13]@", <<"a","2","a","d","6","e","c","5","a","8","2","9">>>>,
  <<"span.Card.element[14]@", <<"e","e","8","b","8","a","4","f","3","5","d","7">>>>,
  <<"span.Card.element[15]@", <<"6","8","9","a","3","3","5","e","7","6","6","5">>>>,
  <<"Card.div.element[0]@", <<"e","4","2","d","9","b","f","d","c","e","8","3">>>>,
  <<"Card.div.element[1]@", <<"5","5","e","9","7","2","9","a","3","7","e","1">>>>,
  <<"Card.div.element[2]@", <<"0","3","6","3","9","9","4","0","e","d","f","c">>>>,
  <<"Card.div.element[3]@", <<"b","7","3","9","7","d","2","0","c","3","5","e">>>>,
  <<"Card.div.element[4]@", <<"6","6","1","8","c","6","7","9","0","1","d","f">>>>,
  <<"Card.div.element[5]@", <<"3","4","0","d","f","5","3","b","2","a","b","2">>>>,
  <<"Card.div.element[6]@", <<"9","c","4","8","0","6","e","2","e","5","f","b">>>>,
  <<"Card.div.element[7]@", <<"5","8","d","3","6","8","4","0","c","2","4","a">>>>,
  <<"Card.div.element[8]@", <<"3","c","1","1","a","4","d","4","4","8","6","8">>>>,
  <<"Card.div.element[9]@", <<"9","a","2","d","b","d","7","5","d","4","c","e">>>>,
  <<"Card.div.element[10]@", <<"d","2","5","3","f","3","5","b","b","b","e","9">>>>,
  <<"Card.div.element[11]@", <<"6","6","2","a","6","3","2","4","5","c","e","c">>>>,
  <<"Card.div.element[12]@", <<"c","5","1","6","a","a","f","6","f","1","3","2">>>>,
  <<"Card.div.element[13]@", <<"f","5","8","5","7","e","e","a","0","5","9","7">>>>,
  <<"Card.div.element[14]@", <<"3","f","e","2","4","9","f","7","7","3","a","9">>>>,
  <<"Card.div.element[15]@", <<"8","7","8","1","6","f","f","7","0","8","0","2">>>>,
  <<"Card.span.element[0]@", <<"0","0","9","7","8","e","b","c","5","d","6","f">>>>,
  <<"Card.span.element[1]@", <<"0","9","f","4","7","d","1","9","0","b","d","8">>>>,
  <<"Card.span.element[2]@", <<"9","c","f","4","e","3","1","6","a","8","7","d">>>>,
  <<"Card.span.element[3]@", <<"2","8","6","d","4","d","5","0","f","3","4","0">>>>,
  <<"Card.span.element[4]@", <<"f","d","2","d","7","a","7","2","9","1","5","c">>>>,
  <<"Card.span.element[5]@", <<"c","5","8","c","e","3","6","6","9","9","9","5">>>>,
  <<"Card.span.element[6]@", <<"4","d","c","c","2","8","2","4","1","3","7","d">>>>,
  <<"Card.span.element[7]@", <<"3","7","2","3","0","4","6","b","f","3","c","8">>>>,
  <<"Card.span.element[8]@", <<"f","6","2","2","a","6","a","5","a","9","b","e">>>>,
  <<"Card.span.element[9]@", <<"4","2","5","d","1","3","d","c","0","3","1","e">>>>,
  <<"Card.span.element[10]@", <<"9","5","4","1","7","e","8","3","1","3","0","f">>>>,
  <<"Card.span.element[11]@", <<"6","c","5","1","3","8","7","5","9","f","5","6">>>>,
  <<"Card.span.element[12]@", <<"8","0","c","a","0","0","e","0","7","3","2","c">>>>,
  <<"Card.span.element[13]@", <<"0","5","8","7","d","4","a","5","6","9","1","f">>>>,
  <<"Card.span.element[14]@", <<"7","3","2","5","c","f","c","d","f","b","6","3">>>>,
  <<"Card.span.element[15]@", <<"2","0","9","7","3","6","2","8","6","c","9","2">>>>,
  <<"Card.Card.element[0]@", <<"b","6","5","3","2","f","7","4","b","2","6","2">>>>,
  <<"Card.Card.element[1]@", <<"f","8","1","a","8","9","7","4","5","d","2","f">>>>,
  <<"Card.Card.element[2]@", <<"6","f","c","d","0","9","4","9","8","d","7","e">>>>,
  <<"Card.Card.element[3]@", <<"b","d","f","e","b","2","8","7","9","b","2","b">>>>,
  <<"Card.Card.element[4]@", <<"9","5","2","2","f","1","4","4","1","3","3","8">>>>,
  <<"Card.Card.element[5]@", <<"e","8","f","0","6","6","a","6","5","7","8","c">>>>,
  <<"Card.Card.element[6]@", <<"1","6","2","4","6","2","6","4","d","9","7","7">>>>,
  <<"Card.Card.element[7]@", <<"4","8","0","3","b","e","f","0","4","e","a","f">>>>,
  <<"Card.Card.element[8]@", <<"b","2","6","c","6","2","0","3","7","e","e","9">>>>,
  <<"Card.Card.element[9]@", <<"f","c","3","f","4","1","4","8","3","f","6","7">>>>,
  <<"Card.Card.element[10]@", <<"8","3","6","1","5","7","6","d","d","f","4","e">>>>,
  <<"Card.Card.element[11]@", <<"5","8","2","7","f","7","6","a","2","2","1","b">>>>,
  <<"Card.Card.element[12]@", <<"6","8","2","7","c","e","a","c","c","2","7","3">>>>,
  <<"Card.Card.element[13]@", <<"c","0","0","c","5","1","4","2","6","4","2","2">>>>,
  <<"Card.Card.element[14]@", <<"8","7","4","c","4","6","9","6","2","1","7","4">>>>,
  <<"Card.Card.element[15]@", <<"e","2","a","0","4","1","0","4","2","8","f","8">>>>,
  <<"div.div.div.element[0]@", <<"7","5","f","c","6","6","f","b","4","e","8","1">>>>,
  <<"div.div.div.element[1]@", <<"0","d","9","0","7","0","f","8","3","a","a","a">>>>,
  <<"div.div.div.element[2]@", <<"3","5","0","b","0","e","9","4","1","3","2","c">>>>,
  <<"div.div.div.element[3]@", <<"9","d","9","b","8","9","3","b","a","5","c","4">>>>,
  <<"div.div.div.element[4]@", <<"3","8","4","9","d","b","2","6","4","e","8","4">>>>,
  <<"div.div.div.element[5]@", <<"c","e","a","4","4","b","a","a","d","0","2","f">>>>,
  <<"div.div.div.element[6]@", <<"a","d","9","2","3","6","8","4","d","6","1","7">>>>,
  <<"div.div.div.element[7]@", <<"8","6","5","5","3","e","9","c","2","8","4","f">>>>,
  <<"div.div.div.element[8]@", <<"9","0","8","5","c","3","6","d","f","2","d","4">>>>,
  <<"div.div.div.element[9]@", <<"1","2","d","3","a","2","0","d","9","4","0","8">>>>,
  <<"div.div.div.element[10]@", <<"2","3","a","9","4","b","2","4","b","d","f","6">>>>,
  <<"div.div.div.element[11]@", <<"6","c","c","8","c","d","a","8","1","2","1","4">>>>,
  <<"div.div.div.element[12]@", <<"4","0","e","7","0","2","6","2","9","f","c","b">>>>,
  <<"div.div.div.element[13]@", <<"7","2","4","0","5","2","f","3","7","d","f","0">>>>,
  <<"div.div.div.element[14]@", <<"d","4","b","e","a","8","5","f","1","2","a","6">>>>,
  <<"div.div.div.element[15]@", <<"c","4","b","4","c","a","8","3","7","7","4","9">>>>,
  <<"div.div.span.element[0]@", <<"7","8","7","d","a","b","c","0","0","2","a","9">>>>,
  <<"div.div.span.element[1]@", <<"b","b","0","6","d","2","d","6","8","4","0","a">>>>,
  <<"div.div.span.element[2]@", <<"0","e","2","2","0","e","7","7","b","3","6","5">>>>,
  <<"div.div.span.element[3]@", <<"d","5","e","d","9","2","3","f","f","1","e","f">>>>,
  <<"div.div.span.element[4]@", <<"5","f","6","e","5","a","e","0","b","1","e","0">>>>,
  <<"div.div.span.element[5]@", <<"8","7","7","7","7","7","4","2","1","7","e","7">>>>,
  <<"div.div.span.element[6]@", <<"f","2","a","9","8","2","4","a","d","d","8","c">>>>,
  <<"div.div.span.element[7]@", <<"c","d","5","a","7","3","3","4","0","d","9","0">>>>,
  <<"div.div.span.element[8]@", <<"0","2","d","5","7","9","6","d","d","f","9","1">>>>,
  <<"div.div.span.element[9]@", <<"7","9","b","7","4","b","e","9","7","4","8","0">>>>,
  <<"div.div.span.element[10]@", <<"b","6","b","d","f","1","0","5","e","6","a","c">>>>,
  <<"div.div.span.element[11]@", <<"6","b","8","f","f","d","f","5","a","6","4","b">>>>,
  <<"div.div.span.element[12]@", <<"d","0","2","4","6","2","a","5","4","6","b","9">>>>,
  <<"div.div.span.element[13]@", <<"9","f","b","4","7","0","7","d","d","a","c","f">>>>,
  <<"div.div.span.element[14]@", <<"7","d","a","e","4","5","e","2","5","7","6","4">>>>,
  <<"div.div.span.element[15]@", <<"d","1","6","b","a","7","d","3","7","5","9","3">>>>,
  <<"div.div.Card.element[0]@", <<"6","1","a","a","1","9","e","b","4","9","8","0">>>>,
  <<"div.div.Card.element[1]@", <<"e","1","8","c","5","d","8","d","f","f","5","d">>>>,
  <<"div.div.Card.element[2]@", <<"8","d","5","7","b","0","6","a","7","e","0","2">>>>,
  <<"div.div.Card.element[3]@", <<"3","1","e","d","4","6","0","9","5","d","d","f">>>>,
  <<"div.div.Card.element[4]@", <<"6","9","c","a","c","4","d","c","0","4","0","3">>>>,
  <<"div.div.Card.element[5]@", <<"d","a","5","b","e","1","4","6","e","8","a","b">>>>,
  <<"div.div.Card.element[6]@", <<"5","5","5","0","6","3","f","3","4","5","c","8">>>>,
  <<"div.div.Card.element[7]@", <<"a","b","6","5","4","d","1","4","d","2","e","8">>>>,
  <<"div.div.Card.element[8]@", <<"0","7","c","6","e","0","c","c","f","3","1","6">>>>,
  <<"div.div.Card.element[9]@", <<"8","c","2","c","6","3","5","2","8","0","1","d">>>>,
  <<"div.div.Card.element[10]@", <<"c","c","7","8","0","5","4","6","f","e","c","b">>>>,
  <<"div.div.Card.element[11]@", <<"9","9","7","c","5","7","4","2","6","7","5","4">>>>,
  <<"div.div.Card.element[12]@", <<"0","6","8","b","0","8","f","7","0","3","d","4">>>>,
  <<"div.div.Card.element[13]@", <<"6","b","8","c","0","6","5","3","8","7","e","5">>>>,
  <<"div.div.Card.element[14]@", <<"4","2","2","d","b","c","6","2","9","2","c","0">>>>,
  <<"div.div.Card.element[15]@", <<"3","c","4","f","3","6","0","e","3","1","a","d">>>>,
  <<"div.span.div.element[0]@", <<"d","7","6","4","e","9","c","b","1","5","6","9">>>>,
  <<"div.span.div.element[1]@", <<"f","5","7","1","c","d","1","c","5","f","a","6">>>>,
  <<"div.span.div.element[2]@", <<"8","f","6","d","9","2","0","f","4","6","2","a">>>>,
  <<"div.span.div.element[3]@", <<"c","c","1","c","8","3","e","f","5","d","a","b">>>>,
  <<"div.span.div.element[4]@", <<"f","d","0","8","2","0","9","3","5","c","6","0">>>>,
  <<"div.span.div.element[5]@", <<"3","5","5","8","3","f","4","2","8","1","0","1">>>>,
  <<"div.span.div.element[6]@", <<"3","4","2","8","b","0","d","8","5","f","b","8">>>>,
  <<"div.span.div.element[7]@", <<"1","b","6","d","0","c","0","4","1","e","e","c">>>>,
  <<"div.span.div.element[8]@", <<"7","2","c","5","9","9","0","d","e","3","4","9">>>>,
  <<"div.span.div.element[9]@", <<"5","7","4","6","1","c","b","f","3","9","5","c">>>>,
  <<"div.span.div.element[10]@", <<"6","6","0","5","3","5","4","4","3","a","8","0">>>>,
  <<"div.span.div.element[11]@", <<"2","2","9","c","9","c","2","2","e","4","5","e">>>>,
  <<"div.span.div.element[12]@", <<"d","3","b","d","0","a","3","5","2","d","0","c">>>>,
  <<"div.span.div.element[13]@", <<"5","5","1","3","5","c","c","f","b","a","2","1">>>>,
  <<"div.span.div.element[14]@", <<"a","c","1","b","b","2","7","9","7","0","a","7">>>>,
  <<"div.span.div.element[15]@", <<"7","d","3","8","a","d","4","5","6","b","1","a">>>>,
  <<"div.span.span.element[0]@", <<"9","d","c","1","3","7","7","a","e","4","6","e">>>>,
  <<"div.span.span.element[1]@", <<"a","d","b","b","b","a","2","9","1","4","7","4">>>>,
  <<"div.span.span.element[2]@", <<"9","5","e","2","e","b","3","f","6","e","9","6">>>>,
  <<"div.span.span.element[3]@", <<"1","3","7","5","d","3","2","5","7","2","d","9">>>>,
  <<"div.span.span.element[4]@", <<"3","7","0","9","d","a","b","f","7","9","9","2">>>>,
  <<"div.span.span.element[5]@", <<"7","0","0","0","b","3","c","8","1","4","3","5">>>>,
  <<"div.span.span.element[6]@", <<"5","5","2","a","3","1","e","0","3","1","3","d">>>>,
  <<"div.span.span.element[7]@", <<"6","6","0","7","2","7","d","a","2","b","7","c">>>>,
  <<"div.span.span.element[8]@", <<"8","a","5","6","4","0","f","9","3","e","e","a">>>>,
  <<"div.span.span.element[9]@", <<"0","6","b","b","2","5","f","e","e","3","b","5">>>>,
  <<"div.span.span.element[10]@", <<"a","e","8","1","f","2","9","e","a","c","1","0">>>>,
  <<"div.span.span.element[11]@", <<"b","6","6","c","8","5","a","5","1","c","2","b">>>>,
  <<"div.span.span.element[12]@", <<"9","3","d","8","9","f","e","2","c","5","2","5">>>>,
  <<"div.span.span.element[13]@", <<"f","2","9","e","6","e","d","a","1","5","a","1">>>>,
  <<"div.span.span.element[14]@", <<"0","d","b","6","d","b","3","d","8","d","d","f">>>>,
  <<"div.span.span.element[15]@", <<"a","a","0","a","1","2","a","4","d","1","c","2">>>>,
  <<"div.span.Card.element[0]@", <<"c","3","2","d","4","4","f","1","4","7","7","7">>>>,
  <<"div.span.Card.element[1]@", <<"8","f","a","a","f","3","e","3","1","6","1","e">>>>,
  <<"div.span.Card.element[2]@", <<"1","3","5","2","d","a","c","2","e","f","8","1">>>>,
  <<"div.span.Card.element[3]@", <<"9","c","3","5","2","7","a","2","7","9","e","5">>>>,
  <<"div.span.Card.element[4]@", <<"5","d","7","3","5","a","1","a","5","0","f","c">>>>,
  <<"div.span.Card.element[5]@", <<"c","b","5","3","f","f","4","a","7","8","2","a">>>>,
  <<"div.span.Card.element[6]@", <<"1","2","a","0","1","1","8","4","3","2","e","4">>>>,
  <<"div.span.Card.element[7]@", <<"c","b","5","d","c","5","8","1","b","5","2","d">>>>,
  <<"div.span.Card.element[8]@", <<"7","4","d","9","a","8","8","b","5","8","a","8">>>>,
  <<"div.span.Card.element[9]@", <<"3","d","9","e","7","9","b","1","3","f","5","c">>>>,
  <<"div.span.Card.element[10]@", <<"2","1","2","a","6","7","c","c","0","e","b","c">>>>,
  <<"div.span.Card.element[11]@", <<"3","d","c","6","e","a","a","7","7","3","3","1">>>>,
  <<"div.span.Card.element[12]@", <<"e","e","f","e","6","3","4","7","2","3","7","5">>>>,
  <<"div.span.Card.element[13]@", <<"b","7","b","3","b","e","8","c","6","5","2","2">>>>,
  <<"div.span.Card.element[14]@", <<"8","3","d","5","6","b","7","8","b","1","b","3">>>>,
  <<"div.span.Card.element[15]@", <<"8","2","6","5","f","b","6","b","6","3","6","3">>>>,
  <<"div.Card.div.element[0]@", <<"1","1","4","0","a","f","a","8","7","d","4","d">>>>,
  <<"div.Card.div.element[1]@", <<"4","d","4","0","9","d","1","0","9","5","c","9">>>>,
  <<"div.Card.div.element[2]@", <<"b","8","b","2","2","2","a","1","b","a","8","f">>>>,
  <<"div.Card.div.element[3]@", <<"b","d","8","a","1","c","d","8","c","5","c","2">>>>,
  <<"div.Card.div.element[4]@", <<"9","f","f","0","4","4","f","b","1","3","f","d">>>>,
  <<"div.Card.div.element[5]@", <<"5","f","6","9","7","2","1","6","6","e","e","c">>>>,
  <<"div.Card.div.element[6]@", <<"c","3","7","f","d","9","8","6","2","2","d","6">>>>,
  <<"div.Card.div.element[7]@", <<"5","6","0","b","7","2","0","e","a","3","b","7">>>>,
  <<"div.Card.div.element[8]@", <<"9","b","2","c","c","2","a","e","1","a","b","b">>>>,
  <<"div.Card.div.element[9]@", <<"e","e","c","d","e","1","5","3","2","2","6","1">>>>,
  <<"div.Card.div.element[10]@", <<"8","0","2","c","2","8","4","c","d","2","6","e">>>>,
  <<"div.Card.div.element[11]@", <<"d","3","5","6","a","9","b","3","3","1","8","4">>>>,
  <<"div.Card.div.element[12]@", <<"d","2","c","a","4","7","2","b","2","0","d","6">>>>,
  <<"div.Card.div.element[13]@", <<"a","9","8","d","f","a","7","e","3","2","4","5">>>>,
  <<"div.Card.div.element[14]@", <<"3","6","2","2","2","a","3","8","3","9","9","4">>>>,
  <<"div.Card.div.element[15]@", <<"0","b","6","5","3","5","2","b","0","e","6","3">>>>,
  <<"div.Card.span.element[0]@", <<"b","2","6","d","a","d","9","c","1","8","6","f">>>>,
  <<"div.Card.span.element[1]@", <<"c","e","4","4","0","6","2","d","a","b","b","8">>>>,
  <<"div.Card.span.element[2]@", <<"c","1","1","7","7","a","c","e","7","b","e","3">>>>,
  <<"div.Card.span.element[3]@", <<"7","3","a","a","c","6","a","6","6","d","e","6">>>>,
  <<"div.Card.span.element[4]@", <<"1","4","a","1","8","8","4","8","5","e","4","f">>>>,
  <<"div.Card.span.element[5]@", <<"d","d","8","1","2","7","2","3","e","b","d","d">>>>,
  <<"div.Card.span.element[6]@", <<"5","b","a","1","4","4","5","b","4","1","e","3">>>>,
  <<"div.Card.span.element[7]@", <<"2","5","1","b","5","c","e","5","8","e","2","8">>>>,
  <<"div.Card.span.element[8]@", <<"2","6","d","2","2","7","2","f","d","d","1","6">>>>,
  <<"div.Card.span.element[9]@", <<"4","c","0","b","0","4","1","c","8","3","4","b">>>>,
  <<"div.Card.span.element[10]@", <<"2","d","3","1","4","d","4","d","1","0","e","1">>>>,
  <<"div.Card.span.element[11]@", <<"a","7","1","1","f","d","a","1","2","9","4","0">>>>,
  <<"div.Card.span.element[12]@", <<"d","7","8","d","c","8","2","3","5","0","8","3">>>>,
  <<"div.Card.span.element[13]@", <<"6","8","2","e","c","6","2","0","b","3","a","1">>>>,
  <<"div.Card.span.element[14]@", <<"d","2","a","4","f","d","6","7","1","3","6","f">>>>,
  <<"div.Card.span.element[15]@", <<"8","a","3","a","4","f","3","6","6","8","8","1">>>>,
  <<"div.Card.Card.element[0]@", <<"e","f","c","c","7","0","1","4","b","7","5","5">>>>,
  <<"div.Card.Card.element[1]@", <<"7","3","5","b","4","9","e","c","8","c","8","8">>>>,
  <<"div.Card.Card.element[2]@", <<"4","6","a","3","f","d","3","8","f","5","4","d">>>>,
  <<"div.Card.Card.element[3]@", <<"2","e","d","d","5","b","e","a","3","f","7","b">>>>,
  <<"div.Card.Card.element[4]@", <<"2","d","f","2","0","6","7","c","8","9","0","7">>>>,
  <<"div.Card.Card.element[5]@", <<"a","d","0","8","f","e","9","e","e","9","3","5">>>>,
  <<"div.Card.Card.element[6]@", <<"d","b","f","b","c","1","7","4","a","a","e","9">>>>,
  <<"div.Card.Card.element[7]@", <<"7","9","8","0","8","e","0","4","a","3","6","7">>>>,
  <<"div.Card.Card.element[8]@", <<"2","5","5","2","d","f","b","d","1","0","f","d">>>>,
  <<"div.Card.Card.element[9]@", <<"6","6","b","4","9","a","d","7","3","1","3","6">>>>,
  <<"div.Card.Card.element[10]@", <<"6","b","7","a","b","4","d","c","5","9","3","3">>>>,
  <<"div.Card.Card.element[11]@", <<"d","e","b","e","a","3","3","a","f","4","4","3">>>>,
  <<"div.Card.Card.element[12]@", <<"3","f","3","d","c","a","b","e","8","d","3","3">>>>,
  <<"div.Card.Card.element[13]@", <<"f","1","8","5","2","3","a","2","9","f","5","4">>>>,
  <<"div.Card.Card.element[14]@", <<"d","6","e","7","f","7","f","a","3","7","e","6">>>>,
  <<"div.Card.Card.element[15]@", <<"8","f","9","5","f","7","5","4","a","a","a","4">>>>,
  <<"span.div.div.element[0]@", <<"1","5","9","c","4","e","4","c","0","9","0","9">>>>,
  <<"span.div.div.element[1]@", <<"e","e","7","d","8","7","6","9","0","2","7","1">>>>,
  <<"span.div.div.element[2]@", <<"5","f","2","0","f","4","e","f","0","7","d","6">>>>,
  <<"span.div.div.element[3]@", <<"3","a","0","7","5","d","7","f","7","8","6","6">>>>,
  <<"span.div.div.element[4]@", <<"2","a","a","d","0","6","7","1","c","d","3","b">>>>,
  <<"span.div.div.element[5]@", <<"0","f","c","5","e","7","6","f","5","d","8","e">>>>,
  <<"span.div.div.element[6]@", <<"f","c","4","a","c","8","a","7","2","d","8","3">>>>,
  <<"span.div.div.element[7]@", <<"0","5","8","7","b","4","3","8","5","3","6","d">>>>,
  <<"span.div.div.element[8]@", <<"a","3","9","e","3","4","b","a","7","9","e","c">>>>,
  <<"span.div.div.element[9]@", <<"5","6","e","2","d","7","1","e","2","2","5","5">>>>,
  <<"span.div.div.element[10]@", <<"1","1","7","e","d","6","9","8","3","4","d","0">>>>,
  <<"span.div.div.element[11]@", <<"0","9","b","2","a","0","4","6","7","a","b","b">>>>,
  <<"span.div.div.element[12]@", <<"c","0","8","b","f","4","f","b","1","1","b","b">>>>,
  <<"span.div.div.element[13]@", <<"4","0","2","8","c","6","0","0","9","a","9","e">>>>,
  <<"span.div.div.element[14]@", <<"a","5","c","c","5","9","6","6","9","2","e","5">>>>,
  <<"span.div.div.element[15]@", <<"a","a","1","b","a","5","7","d","c","2","2","3">>>>,
  <<"span.div.span.element[0]@", <<"c","6","5","c","5","6","5","0","0","0","5","e">>>>,
  <<"span.div.span.element[1]@", <<"9","e","a","0","0","a","f","6","8","3","b","4">>>>,
  <<"span.div.span.element[2]@", <<"e","7","d","1","4","1","e","0","0","5","3","a">>>>,
  <<"span.div.span.element[3]@", <<"c","3","2","9","f","9","b","2","1","7","2","5">>>>,
  <<"span.div.span.element[4]@", <<"e","f","b","1","a","0","e","5","8","2","2","6">>>>,
  <<"span.div.span.element[5]@", <<"d","0","8","a","6","6","d","9","4","5","e","7">>>>,
  <<"span.div.span.element[6]@", <<"b","7","d","b","a","6","0","9","5","6","9","7">>>>,
  <<"span.div.span.element[7]@", <<"9","7","0","a","c","b","f","e","8","7","0","b">>>>,
  <<"span.div.span.element[8]@", <<"a","c","3","a","4","4","5","d","b","9","4","6">>>>,
  <<"span.div.span.element[9]@", <<"3","5","9","2","b","d","9","3","f","5","3","b">>>>,
  <<"span.div.span.element[10]@", <<"e","5","e","6","a","3","2","b","8","0","c","3">>>>,
  <<"span.div.span.element[11]@", <<"d","5","b","5","4","0","d","7","6","f","a","6">>>>,
  <<"span.div.span.element[12]@", <<"2","5","3","3","8","8","4","1","e","7","9","1">>>>,
  <<"span.div.span.element[13]@", <<"9","a","d","5","3","e","b","0","7","a","1","d">>>>,
  <<"span.div.span.element[14]@", <<"8","2","9","4","1","1","5","f","8","4","d","0">>>>,
  <<"span.div.span.element[15]@", <<"7","7","4","d","a","2","a","3","8","6","0","b">>>>,
  <<"span.div.Card.element[0]@", <<"7","3","e","b","4","2","3","8","8","1","3","b">>>>,
  <<"span.div.Card.element[1]@", <<"9","5","8","9","d","b","f","9","0","3","c","6">>>>,
  <<"span.div.Card.element[2]@", <<"f","d","3","7","1","1","7","1","f","e","c","f">>>>,
  <<"span.div.Card.element[3]@", <<"d","0","2","b","3","d","f","a","9","f","d","7">>>>,
  <<"span.div.Card.element[4]@", <<"c","6","d","1","8","1","5","5","3","3","0","4">>>>,
  <<"span.div.Card.element[5]@", <<"6","a","1","0","f","c","8","8","9","5","5","6">>>>,
  <<"span.div.Card.element[6]@", <<"d","0","c","0","4","a","c","a","8","f","9","3">>>>,
  <<"span.div.Card.element[7]@", <<"2","3","0","5","1","a","2","f","d","6","3","3">>>>,
  <<"span.div.Card.element[8]@", <<"c","0","e","e","2","b","6","5","6","2","e","a">>>>,
  <<"span.div.Card.element[9]@", <<"2","7","5","2","0","7","4","d","2","e","5","8">>>>,
  <<"span.div.Card.element[10]@", <<"a","0","8","6","4","b","a","d","b","3","c","0">>>>,
  <<"span.div.Card.element[11]@", <<"b","5","8","b","4","d","6","c","0","f","8","f">>>>,
  <<"span.div.Card.element[12]@", <<"6","7","2","1","f","1","0","9","3","0","3","9">>>>,
  <<"span.div.Card.element[13]@", <<"9","d","a","5","a","6","5","9","e","2","c","3">>>>,
  <<"span.div.Card.element[14]@", <<"d","4","a","d","c","9","7","2","0","2","6","e">>>>,
  <<"span.div.Card.element[15]@", <<"0","1","e","b","b","0","d","3","a","0","4","8">>>>,
  <<"span.span.div.element[0]@", <<"1","5","7","a","0","c","7","d","1","0","9","9">>>>,
  <<"span.span.div.element[1]@", <<"0","4","1","e","d","2","c","e","e","8","c","5">>>>,
  <<"span.span.div.element[2]@", <<"3","3","5","5","7","b","a","d","9","2","5","9">>>>,
  <<"span.span.div.element[3]@", <<"4","d","9","d","b","8","e","7","b","a","c","f">>>>,
  <<"span.span.div.element[4]@", <<"a","3","c","d","8","2","9","d","7","6","6","e">>>>,
  <<"span.span.div.element[5]@", <<"2","d","b","7","f","5","c","3","0","2","3","e">>>>,
  <<"span.span.div.element[6]@", <<"e","0","a","e","4","8","b","d","e","4","8","f">>>>,
  <<"span.span.div.element[7]@", <<"7","6","e","0","c","4","9","1","6","f","4","3">>>>,
  <<"span.span.div.element[8]@", <<"6","e","7","0","2","c","8","d","9","7","9","5">>>>,
  <<"span.span.div.element[9]@", <<"4","b","5","3","2","a","b","9","2","8","8","6">>>>,
  <<"span.span.div.element[10]@", <<"7","2","e","7","4","c","0","7","a","5","c","6">>>>,
  <<"span.span.div.element[11]@", <<"5","d","d","8","0","0","4","4","1","e","b","d">>>>,
  <<"span.span.div.element[12]@", <<"3","d","3","8","e","0","4","3","8","8","a","2">>>>,
  <<"span.span.div.element[13]@", <<"5","4","e","2","c","c","3","f","3","f","b","d">>>>,
  <<"span.span.div.element[14]@", <<"3","a","b","0","a","3","7","b","4","4","f","f">>>>,
  <<"span.span.div.element[15]@", <<"9","6","7","3","6","0","d","8","0","b","4","2">>>>,
  <<"span.span.span.element[0]@", <<"b","9","9","7","b","c","5","b","6","5","3","8">>>>,
  <<"span.span.span.element[1]@", <<"9","0","c","1","6","f","1","0","2","6","9","7">>>>,
  <<"span.span.span.element[2]@", <<"9","8","a","c","5","0","9","f","b","5","5","9">>>>,
  <<"span.span.span.element[3]@", <<"f","f","d","b","f","f","b","6","6","7","b","0">>>>,
  <<"span.span.span.element[4]@", <<"9","2","9","2","5","d","a","7","7","0","5","7">>>>,
  <<"span.span.span.element[5]@", <<"e","4","3","c","9","f","f","4","9","b","5","2">>>>,
  <<"span.span.span.element[6]@", <<"a","6","f","5","8","4","5","4","c","5","6","d">>>>,
  <<"span.span.span.element[7]@", <<"6","4","1","3","7","b","e","7","d","c","0","a">>>>,
  <<"span.span.span.element[8]@", <<"6","6","9","2","c","9","a","c","6","e","4","4">>>>,
  <<"span.span.span.element[9]@", <<"5","4","4","5","0","3","5","4","e","2","9","6">>>>,
  <<"span.span.span.element[10]@", <<"1","e","0","8","e","9","4","b","7","5","d","8">>>>,
  <<"span.span.span.element[11]@", <<"a","f","4","9","2","e","f","7","a","c","d","7">>>>,
  <<"span.span.span.element[12]@", <<"1","0","d","d","0","b","5","9","3","d","7","4">>>>,
  <<"span.span.span.element[13]@", <<"1","0","0","e","2","a","f","2","4","7","a","2">>>>,
  <<"span.span.span.element[14]@", <<"d","c","6","9","3","e","f","1","b","4","3","e">>>>,
  <<"span.span.span.element[15]@", <<"f","c","7","4","b","b","5","5","b","0","f","1">>>>,
  <<"span.span.Card.element[0]@", <<"f","5","9","3","9","1","e","6","f","c","c","f">>>>,
  <<"span.span.Card.element[1]@", <<"3","2","f","e","a","8","f","3","6","f","b","f">>>>,
  <<"span.span.Card.element[2]@", <<"0","1","7","f","4","3","9","2","8","d","0","d">>>>,
  <<"span.span.Card.element[3]@", <<"9","8","4","6","4","0","e","3","f","d","d","6">>>>,
  <<"span.span.Card.element[4]@", <<"e","e","e","5","8","e","4","a","e","d","d","d">>>>,
  <<"span.span.Card.element[5]@", <<"1","0","7","6","f","1","0","0","6","5","8","6">>>>,
  <<"span.span.Card.element[6]@", <<"b","9","5","f","6","0","b","b","6","8","a","9">>>>,
  <<"span.span.Card.element[7]@", <<"8","e","5","a","3","b","8","b","a","8","9","e">>>>,
  <<"span.span.Card.element[8]@", <<"d","2","c","1","d","9","3","0","3","0","d","f">>>>,
  <<"span.span.Card.element[9]@", <<"9","4","e","7","2","2","6","a","c","d","b","c">>>>,
  <<"span.span.Card.element[10]@", <<"9","f","b","c","3","0","2","f","7","5","8","f">>>>,
  <<"span.span.Card.element[11]@", <<"8","2","e","6","6","3","2","6","f","f","8","1">>>>,
  <<"span.span.Card.element[12]@", <<"0","e","2","3","b","5","9","e","2","a","4","7">>>>,
  <<"span.span.Card.element[13]@", <<"8","4","f","a","1","9","e","0","e","8","d","e">>>>,
  <<"span.span.Card.element[14]@", <<"6","0","8","2","6","e","f","7","9","0","7","0">>>>,
  <<"span.span.Card.element[15]@", <<"7","9","0","6","f","f","9","d","0","1","b","3">>>>,
  <<"span.Card.div.element[0]@", <<"a","5","b","3","9","8","4","d","a","3","0","b">>>>,
  <<"span.Card.div.element[1]@", <<"6","1","6","d","0","7","d","c","a","0","f","4">>>>,
  <<"span.Card.div.element[2]@", <<"b","5","5","1","4","0","0","f","0","7","3","d">>>>,
  <<"span.Card.div.element[3]@", <<"6","9","2","8","7","d","4","6","5","d","9","6">>>>,
  <<"span.Card.div.element[4]@", <<"a","2","9","b","8","5","c","d","f","9","f","0">>>>,
  <<"span.Card.div.element[5]@", <<"f","1","6","f","f","f","f","5","0","c","8","f">>>>,
  <<"span.Card.div.element[6]@", <<"f","a","4","6","f","7","9","2","9","7","1","3">>>>,
  <<"span.Card.div.element[7]@", <<"4","a","4","a","1","9","6","a","c","c","1","2">>>>,
  <<"span.Card.div.element[8]@", <<"6","0","0","5","1","1","8","2","d","e","3","7">>>>,
  <<"span.Card.div.element[9]@", <<"9","5","5","9","a","6","2","0","e","2","1","2">>>>,
  <<"span.Card.div.element[10]@", <<"2","7","a","3","c","d","c","1","b","2","1","e">>>>,
  <<"span.Card.div.element[11]@", <<"b","3","c","4","4","e","2","3","6","1","4","1">>>>,
  <<"span.Card.div.element[12]@", <<"e","3","a","2","f","9","b","2","b","7","5","3">>>>,
  <<"span.Card.div.element[13]@", <<"9","d","e","a","b","e","a","5","b","e","7","6">>>>,
  <<"span.Card.div.element[14]@", <<"2","4","b","d","b","4","2","2","c","d","2","5">>>>,
  <<"span.Card.div.element[15]@", <<"b","e","f","9","0","4","5","3","d","7","6","f">>>>,
  <<"span.Card.span.element[0]@", <<"a","5","c","f","8","c","3","6","3","1","4","a">>>>,
  <<"span.Card.span.element[1]@", <<"2","7","5","7","0","b","6","5","7","8","5","1">>>>,
  <<"span.Card.span.element[2]@", <<"3","c","5","d","8","b","a","6","a","6","c","5">>>>,
  <<"span.Card.span.element[3]@", <<"4","9","3","f","0","6","9","7","c","8","a","b">>>>,
  <<"span.Card.span.element[4]@", <<"9","1","f","9","1","0","7","c","9","4","4","0">>>>,
  <<"span.Card.span.element[5]@", <<"8","4","6","e","d","0","5","0","6","b","4","9">>>>,
  <<"span.Card.span.element[6]@", <<"d","f","3","0","1","9","4","1","6","a","9","c">>>>,
  <<"span.Card.span.element[7]@", <<"0","f","d","6","d","8","c","f","8","c","7","e">>>>,
  <<"span.Card.span.element[8]@", <<"e","2","7","4","f","b","b","9","8","f","3","b">>>>,
  <<"span.Card.span.element[9]@", <<"7","7","5","e","5","e","6","0","2","0","0","8">>>>,
  <<"span.Card.span.element[10]@", <<"e","3","c","7","c","5","9","b","e","6","7","9">>>>,
  <<"span.Card.span.element[11]@", <<"d","0","9","7","c","2","b","4","9","b","f","5">>>>,
  <<"span.Card.span.element[12]@", <<"f","2","4","7","5","f","e","3","4","8","c","1">>>>,
  <<"span.Card.span.element[13]@", <<"a","9","e","c","f","f","7","6","0","9","4","b">>>>,
  <<"span.Card.span.element[14]@", <<"0","5","a","d","9","7","7","5","7","3","c","4">>>>,
  <<"span.Card.span.element[15]@", <<"c","7","4","f","5","7","5","8","4","9","8","6">>>>,
  <<"span.Card.Card.element[0]@", <<"a","d","a","d","b","e","6","8","e","e","7","1">>>>,
  <<"span.Card.Card.element[1]@", <<"b","d","8","2","e","9","c","f","6","1","4","1">>>>,
  <<"span.Card.Card.element[2]@", <<"7","8","2","5","b","4","3","b","6","5","d","4">>>>,
  <<"span.Card.Card.element[3]@", <<"3","4","5","b","4","a","3","3","a","e","3","7">>>>,
  <<"span.Card.Card.element[4]@", <<"3","7","4","8","1","2","8","7","3","9","2","0">>>>,
  <<"span.Card.Card.element[5]@", <<"c","7","6","6","c","d","f","a","5","d","a","4">>>>,
  <<"span.Card.Card.element[6]@", <<"b","0","a","d","2","2","9","e","9","7","0","d">>>>,
  <<"span.Card.Card.element[7]@", <<"f","e","2","3","d","9","7","1","2","0","3","4">>>>,
  <<"span.Card.Card.element[8]@", <<"9","4","f","0","2","8","b","7","6","6","0","c">>>>,
  <<"span.Card.Card.element[9]@", <<"c","2","6","d","0","f","9","6","8","a","3","d">>>>,
  <<"span.Card.Card.element[10]@", <<"9","3","f","e","4","b","e","3","c","8","9","b">>>>,
  <<"span.Card.Card.element[11]@", <<"3","4","8","5","e","e","0","7","d","e","7","2">>>>,
  <<"span.Card.Card.element[12]@", <<"0","a","1","3","d","c","4","8","3","1","8","9">>>>,
  <<"span.Card.Card.element[13]@", <<"c","a","d","7","5","5","b","d","8","5","6","2">>>>,
  <<"span.Card.Card.element[14]@", <<"d","e","0","0","5","d","3","d","b","9","8","4">>>>,
  <<"span.Card.Card.element[15]@", <<"d","d","2","b","8","f","3","8","5","0","0","5">>>>,
  <<"Card.div.div.element[0]@", <<"0","a","0","1","9","a","6","5","1","4","f","6">>>>,
  <<"Card.div.div.element[1]@", <<"9","2","e","f","e","9","c","8","d","f","2","1">>>>,
  <<"Card.div.div.element[2]@", <<"c","9","8","3","8","7","8","7","6","0","1","2">>>>,
  <<"Card.div.div.element[3]@", <<"9","3","1","7","8","4","2","b","6","1","8","8">>>>,
  <<"Card.div.div.element[4]@", <<"e","6","b","0","8","2","8","a","b","6","1","9">>>>,
  <<"Card.div.div.element[5]@", <<"5","1","6","0","6","7","3","2","9","b","0","b">>>>,
  <<"Card.div.div.element[6]@", <<"1","0","d","7","c","d","0","7","e","c","d","a">>>>,
  <<"Card.div.div.element[7]@", <<"6","9","3","5","d","4","f","2","7","8","9","a">>>>,
  <<"Card.div.div.element[8]@", <<"8","6","b","2","5","1","1","9","d","7","b","8">>>>,
  <<"Card.div.div.element[9]@", <<"3","4","2","3","9","f","8","4","f","d","6","f">>>>,
  <<"Card.div.div.element[10]@", <<"5","2","9","8","7","5","5","1","3","a","7","a">>>>,
  <<"Card.div.div.element[11]@", <<"3","f","5","5","d","b","6","0","b","6","b","3">>>>,
  <<"Card.div.div.element[12]@", <<"d","f","c","f","5","0","f","0","d","8","8","c">>>>,
  <<"Card.div.div.element[13]@", <<"7","b","f","4","0","1","a","e","6","1","c","b">>>>,
  <<"Card.div.div.element[14]@", <<"e","c","3","a","b","0","0","b","8","b","f","0">>>>,
  <<"Card.div.div.element[15]@", <<"5","2","5","d","4","4","0","d","c","d","4","1">>>>,
  <<"Card.div.span.element[0]@", <<"7","3","7","c","4","6","8","f","0","5","3","1">>>>,
  <<"Card.div.span.element[1]@", <<"5","e","6","1","0","f","8","8","4","2","3","4">>>>,
  <<"Card.div.span.element[2]@", <<"9","0","9","7","6","1","5","9","d","f","9","4">>>>,
  <<"Card.div.span.element[3]@", <<"4","f","0","4","a","0","1","b","6","7","d","a">>>>,
  <<"Card.div.span.element[4]@", <<"8","3","3","7","f","a","0","5","3","5","c","0">>>>,
  <<"Card.div.span.element[5]@", <<"7","a","5","6","b","3","f","e","b","3","8","3">>>>,
  <<"Card.div.span.element[6]@", <<"f","6","d","d","0","6","3","1","1","2","3","6">>>>,
  <<"Card.div.span.element[7]@", <<"c","c","9","e","3","0","8","a","6","5","5","0">>>>,
  <<"Card.div.span.element[8]@", <<"5","f","9","4","8","d","d","9","8","2","7","d">>>>,
  <<"Card.div.span.element[9]@", <<"2","3","c","b","0","a","2","3","8","c","d","3">>>>,
  <<"Card.div.span.element[10]@", <<"0","7","8","4","7","3","6","e","b","a","1","c">>>>,
  <<"Card.div.span.element[11]@", <<"7","1","7","8","e","e","2","7","d","e","e","9">>>>,
  <<"Card.div.span.element[12]@", <<"9","c","d","e","f","6","3","0","e","3","e","d">>>>,
  <<"Card.div.span.element[13]@", <<"a","9","6","3","9","6","e","0","f","3","2","5">>>>,
  <<"Card.div.span.element[14]@", <<"3","d","8","7","b","f","8","8","c","0","f","a">>>>,
  <<"Card.div.span.element[15]@", <<"c","1","9","f","3","7","d","a","a","b","1","a">>>>,
  <<"Card.div.Card.element[0]@", <<"3","8","b","8","f","0","c","f","c","7","e","9">>>>,
  <<"Card.div.Card.element[1]@", <<"3","d","c","7","8","2","f","b","8","5","0","4">>>>,
  <<"Card.div.Card.element[2]@", <<"9","6","0","d","4","6","2","5","8","9","4","7">>>>,
  <<"Card.div.Card.element[3]@", <<"e","5","9","9","1","0","8","4","c","5","f","8">>>>,
  <<"Card.div.Card.element[4]@", <<"1","8","f","c","7","b","0","9","c","5","9","1">>>>,
  <<"Card.div.Card.element[5]@", <<"6","6","7","d","0","d","1","a","6","d","e","3">>>>,
  <<"Card.div.Card.element[6]@", <<"5","5","8","f","4","3","5","f","8","5","5","4">>>>,
  <<"Card.div.Card.element[7]@", <<"8","5","a","7","3","1","4","b","1","d","d","d">>>>,
  <<"Card.div.Card.element[8]@", <<"3","c","3","3","b","a","d","0","c","d","f","f">>>>,
  <<"Card.div.Card.element[9]@", <<"f","8","0","e","8","e","0","e","d","5","3","9">>>>,
  <<"Card.div.Card.element[10]@", <<"b","4","6","c","6","f","a","e","2","b","b","4">>>>,
  <<"Card.div.Card.element[11]@", <<"2","1","d","7","9","8","2","f","4","2","4","f">>>>,
  <<"Card.div.Card.element[12]@", <<"6","4","c","4","5","7","6","3","d","0","6","1">>>>,
  <<"Card.div.Card.element[13]@", <<"5","b","c","7","8","b","6","e","5","0","1","c">>>>,
  <<"Card.div.Card.element[14]@", <<"5","f","4","c","3","4","2","f","a","5","d","2">>>>,
  <<"Card.div.Card.element[15]@", <<"7","0","6","b","3","9","f","5","c","e","e","4">>>>,
  <<"Card.span.div.element[0]@", <<"2","6","7","f","3","c","2","6","5","7","f","8">>>>,
  <<"Card.span.div.element[1]@", <<"8","5","8","1","d","0","2","5","9","5","1","1">>>>,
  <<"Card.span.div.element[2]@", <<"a","8","d","8","c","f","3","4","8","a","d","f">>>>,
  <<"Card.span.div.element[3]@", <<"b","2","f","e","b","a","5","b","a","a","e","8">>>>,
  <<"Card.span.div.element[4]@", <<"e","a","6","b","d","0","4","6","b","e","4","3">>>>,
  <<"Card.span.div.element[5]@", <<"0","b","2","7","f","c","7","5","2","4","f","b">>>>,
  <<"Card.span.div.element[6]@", <<"1","a","0","8","6","d","0","8","e","e","d","d">>>>,
  <<"Card.span.div.element[7]@", <<"a","8","a","5","0","a","f","c","c","1","f","f">>>>,
  <<"Card.span.div.element[8]@", <<"1","1","3","a","b","f","e","7","c","c","c","2">>>>,
  <<"Card.span.div.element[9]@", <<"8","8","6","9","0","8","8","c","f","f","b","5">>>>,
  <<"Card.span.div.element[10]@", <<"9","e","4","1","b","8","b","a","2","3","0","6">>>>,
  <<"Card.span.div.element[11]@", <<"b","0","6","8","f","9","0","b","e","7","3","5">>>>,
  <<"Card.span.div.element[12]@", <<"d","5","b","2","7","b","4","3","0","5","1","a">>>>,
  <<"Card.span.div.element[13]@", <<"0","c","6","2","1","7","c","7","d","5","8","f">>>>,
  <<"Card.span.div.element[14]@", <<"1","5","b","9","3","d","9","5","e","3","a","e">>>>,
  <<"Card.span.div.element[15]@", <<"8","0","d","f","9","6","b","8","c","e","7","d">>>>,
  <<"Card.span.span.element[0]@", <<"1","9","4","a","5","0","e","a","4","3","4","7">>>>,
  <<"Card.span.span.element[1]@", <<"e","f","d","0","9","0","6","2","3","d","1","0">>>>,
  <<"Card.span.span.element[2]@", <<"1","a","8","5","9","8","3","0","9","5","8","c">>>>,
  <<"Card.span.span.element[3]@", <<"2","0","9","4","1","4","f","c","7","6","c","b">>>>,
  <<"Card.span.span.element[4]@", <<"8","3","0","c","a","0","8","8","3","b","4","a">>>>,
  <<"Card.span.span.element[5]@", <<"8","0","1","1","d","3","a","2","f","b","c","c">>>>,
  <<"Card.span.span.element[6]@", <<"d","b","6","d","e","9","2","6","5","d","5","9">>>>,
  <<"Card.span.span.element[7]@", <<"f","a","8","d","9","c","d","8","e","7","b","c">>>>,
  <<"Card.span.span.element[8]@", <<"c","b","c","1","c","8","e","c","e","0","b","0">>>>,
  <<"Card.span.span.element[9]@", <<"f","6","d","9","3","7","a","b","2","f","9","e">>>>,
  <<"Card.span.span.element[10]@", <<"d","1","3","d","b","4","0","d","e","6","a","6">>>>,
  <<"Card.span.span.element[11]@", <<"6","1","1","b","0","3","2","f","f","7","9","4">>>>,
  <<"Card.span.span.element[12]@", <<"8","f","6","3","a","b","4","3","1","2","b","8">>>>,
  <<"Card.span.span.element[13]@", <<"a","4","6","3","d","b","f","5","0","5","4","2">>>>,
  <<"Card.span.span.element[14]@", <<"0","1","0","9","0","2","5","2","6","1","8","5">>>>,
  <<"Card.span.span.element[15]@", <<"b","7","6","f","c","2","a","3","8","0","8","2">>>>,
  <<"Card.span.Card.element[0]@", <<"d","5","3","b","d","e","0","3","2","b","b","3">>>>,
  <<"Card.span.Card.element[1]@", <<"6","7","a","a","4","e","b","3","4","8","4","c">>>>,
  <<"Card.span.Card.element[2]@", <<"4","2","f","2","4","2","4","0","5","7","9","f">>>>,
  <<"Card.span.Card.element[3]@", <<"0","c","a","e","b","4","5","1","8","a","7","b">>>>,
  <<"Card.span.Card.element[4]@", <<"7","9","6","f","5","d","b","c","d","0","2","0">>>>,
  <<"Card.span.Card.element[5]@", <<"a","a","0","7","5","f","5","c","d","e","6","0">>>>,
  <<"Card.span.Card.element[6]@", <<"5","9","5","9","4","4","c","0","9","2","1","b">>>>,
  <<"Card.span.Card.element[7]@", <<"d","1","a","7","a","2","3","4","6","1","b","3">>>>,
  <<"Card.span.Card.element[8]@", <<"b","7","1","1","3","8","e","f","a","5","6","c">>>>,
  <<"Card.span.Card.element[9]@", <<"b","f","0","1","e","c","7","6","c","2","0","f">>>>,
  <<"Card.span.Card.element[10]@", <<"6","9","9","a","2","8","0","7","9","c","0","5">>>>,
  <<"Card.span.Card.element[11]@", <<"a","7","4","8","c","2","d","4","b","2","a","a">>>>,
  <<"Card.span.Card.element[12]@", <<"f","3","7","6","d","3","4","b","4","d","3","4">>>>,
  <<"Card.span.Card.element[13]@", <<"3","d","0","7","0","0","7","1","d","8","d","2">>>>,
  <<"Card.span.Card.element[14]@", <<"2","c","5","d","d","d","2","6","e","5","3","c">>>>,
  <<"Card.span.Card.element[15]@", <<"e","3","5","0","7","9","a","8","7","f","8","e">>>>,
  <<"Card.Card.div.element[0]@", <<"a","f","1","5","6","0","2","1","e","b","9","7">>>>,
  <<"Card.Card.div.element[1]@", <<"f","c","1","7","c","a","9","e","a","4","2","7">>>>,
  <<"Card.Card.div.element[2]@", <<"c","e","c","4","d","4","6","a","a","d","b","c">>>>,
  <<"Card.Card.div.element[3]@", <<"a","8","4","a","4","9","6","8","9","8","1","4">>>>,
  <<"Card.Card.div.element[4]@", <<"7","d","0","7","4","2","9","0","2","4","a","3">>>>,
  <<"Card.Card.div.element[5]@", <<"f","d","0","9","3","0","a","5","9","7","8","2">>>>,
  <<"Card.Card.div.element[6]@", <<"2","0","0","9","6","8","8","8","a","6","f","f">>>>,
  <<"Card.Card.div.element[7]@", <<"5","b","b","9","c","6","0","1","c","f","a","d">>>>,
  <<"Card.Card.div.element[8]@", <<"7","c","5","b","a","2","2","2","e","4","1","1">>>>,
  <<"Card.Card.div.element[9]@", <<"e","9","3","6","a","5","a","0","d","8","7","1">>>>,
  <<"Card.Card.div.element[10]@", <<"6","2","0","f","f","b","c","b","c","8","2","3">>>>,
  <<"Card.Card.div.element[11]@", <<"c","f","f","8","0","0","b","7","5","a","6","6">>>>,
  <<"Card.Card.div.element[12]@", <<"4","7","f","4","6","4","4","1","b","6","e","d">>>>,
  <<"Card.Card.div.element[13]@", <<"7","a","c","5","4","f","0","9","d","9","b","e">>>>,
  <<"Card.Card.div.element[14]@", <<"2","c","e","d","a","0","c","9","d","3","a","1">>>>,
  <<"Card.Card.div.element[15]@", <<"1","d","9","2","5","8","9","b","3","0","b","7">>>>,
  <<"Card.Card.span.element[0]@", <<"d","7","5","b","f","9","f","6","e","e","3","1">>>>,
  <<"Card.Card.span.element[1]@", <<"7","0","9","8","4","1","e","0","b","4","6","1">>>>,
  <<"Card.Card.span.element[2]@", <<"7","3","b","c","f","6","7","3","c","d","f","4">>>>,
  <<"Card.Card.span.element[3]@", <<"f","e","c","b","c","b","1","1","5","2","d","5">>>>,
  <<"Card.Card.span.element[4]@", <<"c","2","a","1","4","5","0","1","f","c","1","4">>>>,
  <<"Card.Card.span.element[5]@", <<"e","f","6","4","0","2","7","9","5","9","5","d">>>>,
  <<"Card.Card.span.element[6]@", <<"7","d","9","b","f","d","5","5","d","7","5","d">>>>,
  <<"Card.Card.span.element[7]@", <<"d","a","8","2","1","a","3","e","6","1","0","4">>>>,
  <<"Card.Card.span.element[8]@", <<"6","b","c","8","8","7","6","d","1","2","2","7">>>>,
  <<"Card.Card.span.element[9]@", <<"a","b","8","3","9","3","a","5","4","e","2","d">>>>,
  <<"Card.Card.span.element[10]@", <<"b","a","3","3","9","7","c","9","0","4","a","6">>>>,
  <<"Card.Card.span.element[11]@", <<"1","9","c","5","3","f","6","d","b","5","f","2">>>>,
  <<"Card.Card.span.element[12]@", <<"8","3","a","9","d","1","4","0","1","8","6","d">>>>,
  <<"Card.Card.span.element[13]@", <<"c","9","d","3","0","5","5","7","8","9","1","5">>>>,
  <<"Card.Card.span.element[14]@", <<"9","c","9","2","d","5","a","a","0","f","1","4">>>>,
  <<"Card.Card.span.element[15]@", <<"6","1","8","3","8","1","e","e","6","5","e","1">>>>,
  <<"Card.Card.Card.element[0]@", <<"0","1","5","a","1","1","0","6","c","8","2","1">>>>,
  <<"Card.Card.Card.element[1]@", <<"6","a","7","5","7","7","2","d","3","4","1","7">>>>,
  <<"Card.Card.Card.element[2]@", <<"6","6","b","0","e","1","4","e","c","b","d","4">>>>,
  <<"Card.Card.Card.element[3]@", <<"6","3","5","e","4","b","2","9","c","3","4","d">>>>,
  <<"Card.Card.Card.element[4]@", <<"1","5","4","8","b","e","1","d","e","4","f","c">>>>,
  <<"Card.Card.Card.element[5]@", <<"e","9","9","3","0","a","9","c","8","0","d","c">>>>,
  <<"Card.Card.Card.element[6]@", <<"f","7","a","6","e","c","b","9","a","3","5","c">>>>,
  <<"Card.Card.Card.element[7]@", <<"0","d","b","6","f","4","e","a","d","e","0","2">>>>,
  <<"Card.Card.Card.element[8]@", <<"c","8","b","0","c","9","a","f","a","c","d","3">>>>,
  <<"Card.Card.Card.element[9]@", <<"5","b","5","c","1","d","2","1","2","d","9","1">>>>,
  <<"Card.Card.Card.element[10]@", <<"e","b","e","4","9","9","0","7","d","3","9","d">>>>,
  <<"Card.Card.Card.element[11]@", <<"6","5","2","3","9","0","f","1","3","9","e","a">>>>,
  <<"Card.Card.Card.element[12]@", <<"4","3","8","d","9","1","3","e","8","9","5","d">>>>,
  <<"Card.Card.Card.element[13]@", <<"d","f","7","3","5","8","8","e","c","9","5","7">>>>,
  <<"Card.Card.Card.element[14]@", <<"7","7","b","1","7","2","f","f","5","5","a","b">>>>,
  <<"Card.Card.Card.element[15]@", <<"c","c","1","6","d","3","b","a","8","b","1","6">>>>
}

md5Hex12(seed) == (CHOOSE row \in MD5Rows : row[1] = seed)[2]

\* .substring(0, 12): the length of every synthesized id
DigestLength == 12

\* ------------------------------------------------------------------------
\* Strings.  A JavaScript string is a tuple of one-character strings, so that
\* trim, the first-letter test and concatenation are computed; node types and
\* JSX attribute names, which the code only compares whole, are TLA+ strings.

\* The characters String.prototype.trim removes that occur in the inputs.
Whitespace == {" ", "\t", "\n"}

RECURSIVE trimStart(_)
trimStart(s) ==
  IF s # <<>> /\ Head(s) \in Whitespace THEN trimStart(Tail(s)) ELSE s

RECURSIVE trimEnd(_)
trimEnd(s) ==
  IF s # <<>> /\ s[Len(s)] \in Whitespace
  THEN trimEnd(SubSeq(s, 1, Len(s) - 1))
  ELSE s

\* String.prototype.trim
trim(s) == trimEnd(trimStart(s))

\* Array.prototype.join
RECURSIVE join(_, _)
join(parts, sep) ==
  IF Len(parts) = 0 THEN <<>>
  ELSE IF Len(parts) = 1 THEN parts[1]
  ELSE parts[1] \o sep \o join(Tail(parts), sep)

\* the text of a character tuple, as the digest reads it
RECURSIVE Text(_)
Text(s) == IF s = <<>> THEN "" ELSE Head(s) \o Text(Tail(s))

UpperCase ==
  {"A", "B", "C", "D", "E", "F", "G", "H", "I", "J", "K", "L", "M",
   "N", "O", "P", "Q", "R", "S", "T", "U", "V", "W", "X", "Y", "Z"}

\* ------------------------------------------------------------------------
\* AST nodes (the @babel/types builders the annotator uses)

\* a JavaScript string handed to setOrUpdateAttribute (typeof value === "string")
JsString(s) == [type |-> "string", value |-> s]

StringLiteral(s) == [type |-> "StringLiteral", value |-> s]

Identifier(name) == [type |-> "Identifier", name |-> name]

\* object.property (computed = FALSE) or object[property] (computed = TRUE)
MemberExpression(object, property, computed) ==
  [type |-> "MemberExpression", object |-> object, property |-> property,
   computed |-> computed]

\* `${head}${expression}${tail}`: one interpolated expression between two
\* literal parts
TemplateLiteral(head, expression, tail) ==
  [type |-> "TemplateLiteral", head |-> head, expression |-> expression,
   tail |-> tail]

JSXExpressionContainer(expression) ==
  [type |-> "JSXExpressionContainer", expression |-> expression]

\* null / undefined
Null == [type |-> "null"]

JSXAttribute(name, value) ==
  [type |-> "JSXAttribute", name |-> name, value |-> value]

JSXText(value) == [type |-> "JSXText", value |-> value]

\* a JSXElement together with its opening element's name and attributes
JSXElement(name, attributes, children) ==
  [type |-> "JSXElement", name |-> name, attributes |-> attributes,
   children |-> children]

JSXFragment(children) == [type |-> "JSXFragment", children |-> children]

JSXSpreadChild == [type |-> "JSXSpreadChild"]

\* ------------------------------------------------------------------------
\* Identifier assigner

\* IdGenerationContext, with the history of assignElementId calls made
\* through it (calls), which the code does not keep
IdGenerationContext(filename) ==
  [filename |-> filename, usedIds |-> {}, elementCounter |-> 0,
   elementPath |-> <<>>, calls |-> <<>>]

\* openingElement.attributes.find(...) / the scan of setOrUpdateAttribute:
\* the index of the first JSXAttribute called name, 0 when there is none
findAttribute(attributes, name) ==
  LET hits == {i \in DOMAIN attributes :
                 attributes[i].type = "JSXAttribute" /\ attributes[i].name = name}
  IN IF hits = {} THEN 0 ELSE CHOOSE i \in hits : \A j \in hits : i <= j

normalizeAttributeValue(value) ==
  IF value.type = "string" THEN StringLiteral(value.value)
  ELSE IF value.type = "JSXExpressionContainer" THEN value
  ELSE IF value.type = "StringLiteral" THEN value
  ELSE JSXExpressionContainer(value)

\* a faulty variant of setOrUpdateAttribute: the attribute is always appended
setOrUpdateAttribute_appending(openingElement, name, value) ==
  [openingElement EXCEPT
     !.attributes = Append(@, JSXAttribute(name, normalizeAttributeValue(value)))]

setOrUpdateAttribute(openingElement, name, value) ==
  Bind(findAttribute(openingElement.attributes, name), LAMBDA i :
    IF i # 0
    THEN [openingElement EXCEPT
            !.attributes[i] = JSXAttribute(name, normalizeAttributeValue(value))]
    ELSE [openingElement EXCEPT
            !.attributes = Append(@, JSXAttribute(name, normalizeAttributeValue(value)))])

\* a faulty variant of internalId: the seed leaves the file path out
internalId_withoutFilename(context) ==
  (IF Len(context.elementPath) > 0
   THEN Text(join(context.elementPath, <<".">>)) \o ".element"
   ELSE "element")
    \o "[" \o ToString(context.elementCounter) \o "]@"

\* the seed hashed for the context's current path and counter
internalId(context) ==
  LET pathStr == IF Len(context.elementPath) > 0
                 THEN Text(join(context.elementPath, <<".">>)) \o ".element"
                 ELSE "element"
  IN pathStr \o "[" \o ToString(context.elementCounter) \o "]@"
       \o Text(context.filename)

\* a faulty variant of generateNewId: the first fingerprint is returned, used
\* or not
generateNewId_withoutRetry(context) ==
  [newId |-> md5Hex12(internalId(context)),
   context |-> [context EXCEPT !.elementCounter = @ + 1]]

\* the do/while loop: hash, increment the counter, retry while the id is used
RECURSIVE generateNewId(_)
generateNewId(context) ==
  Bind(md5Hex12(internalId(context)), LAMBDA newId :
    IF newId \in context.usedIds
    THEN generateNewId([context EXCEPT !.elementCounter = @ + 1])
    ELSE [newId |-> newId,
          context |-> [context EXCEPT !.elementCounter = @ + 1]])

\* a faulty variant of existingIdValue: the first attribute of the element
\* is read, whatever its name
existingIdValue_firstAttribute(openingElement) ==
  IF openingElement.attributes = <<>>
       \/ openingElement.attributes[1].type # "JSXAttribute"
  THEN Null
  ELSE openingElement.attributes[1].value

\* the value of the data-editor-id attribute of the element, Null when the
\* element has no such attribute
existingIdValue(openingElement) ==
  Bind(findAttribute(openingElement.attributes, "data-editor-id"), LAMBDA i :
    IF i = 0 THEN Null ELSE openingElement.attributes[i].value)

\* a faulty variant of keepsExistingId: every string id is kept
keepsExistingId_anyString(existing, usedIds) ==
  existing.type = "StringLiteral"

\* the test under which assignElementId keeps the existing id
keepsExistingId(existing, usedIds) ==
  /\ existing.type = "StringLiteral"
  /\ existing.value # <<>>
  /\ trim(existing.value) # <<>>
  /\ existing.value \notin usedIds

\* the end of assignElementId: finalId joins usedIds and is written as the
\* attribute, behind the dynamic suffix when there is one
writeElementId(openingElement, before, after, finalId, dynamicSuffix) ==
  [openingElement |->
     setOrUpdateAttribute(openingElement, "data-editor-id",
       IF dynamicSuffix.type # "null"
       THEN JSXExpressionContainer(
              TemplateLiteral(finalId \o <<":">>, dynamicSuffix, <<>>))
       ELSE JsString(finalId)),
   context |->
     [after EXCEPT
        !.usedIds = @ \cup {finalId},
        !.calls = Append(@, [existing |-> existingIdValue(openingElement),
                             usedBefore |-> before.usedIds,
                             counterBefore |-> before.elementCounter,
                             counterAfter |-> after.elementCounter,
                             finalId |-> finalId])],
   finalId |-> finalId]

\* options.dynamicSuffix is an expression or Null
assignElementId(openingElement, context, dynamicSuffix) ==
  Bind(existingIdValue(openingElement), LAMBDA existing :
    IF keepsExistingId(existing, context.usedIds)
    THEN writeElementId(openingElement, context, context, existing.value,
                        dynamicSuffix)
    ELSE Bind(generateNewId(context), LAMBDA generated :
           writeElementId(openingElement, context, generated.context,
                          generated.newId, dynamicSuffix)))

\* a faulty variant of addComponentAttributes: the component name is not
\* written
addComponentAttributes_withoutName(openingElement, filename, componentName, context, dynamicSuffix) ==
  assignElementId(
    setOrUpdateAttribute(openingElement, "data-component-file", JsString(filename)),
    context, dynamicSuffix)

addComponentAttributes(openingElement, filename, componentName, context, dynamicSuffix) ==
  assignElementId(
    setOrUpdateAttribute(
      setOrUpdateAttribute(openingElement, "data-component-file", JsString(filename)),
      "data-component-name", JsString(componentName)),
    context, dynamicSuffix)

addRenderedByAttributes(openingElement, filename, context, dynamicSuffix) ==
  assignElementId(
    setOrUpdateAttribute(openingElement, "data-rendered-by", JsString(filename)),
    context, dynamicSuffix)

\* ------------------------------------------------------------------------
\* Element classifier

getElementTagName(jsxElement) ==
  IF jsxElement.type = "JSXElement" THEN jsxElement.name ELSE <<"s", "p", "a", "n">>

\* /^[A-Z]/.test(tagName)
isReactComponent(jsxElement) ==
  jsxElement.name # <<>> /\ Head(jsxElement.name) \in UpperCase

\* ------------------------------------------------------------------------
\* Root pass

addEditorMetadata(jsxElement, filename, componentName, isRoot, context) ==
  IF filename = <<>> THEN [openingElement |-> jsxElement, context |-> context]
  ELSE IF isRoot
  THEN Bind(addComponentAttributes(jsxElement, filename, componentName, context, Null),
            LAMBDA r : [openingElement |-> r.openingElement, context |-> r.context])
  ELSE Bind(addRenderedByAttributes(jsxElement, filename, context, Null),
            LAMBDA r : [openingElement |-> r.openingElement, context |-> r.context])

\* the span built around a text run or an identifier expression
wrapInSpan(child, filename, context) ==
  Bind(addRenderedByAttributes(
         JSXElement(<<"s", "p", "a", "n">>, <<>>, <<>>), filename, context, Null),
       LAMBDA r : [child |-> [r.openingElement EXCEPT !.children = <<child>>],
                   context |-> r.context,
                   hasChanges |-> TRUE])

RECURSIVE processJSXChildren(_, _, _, _)
RECURSIVE forEachChild(_, _, _, _)

\* one turn of the forEach callback of processJSXChildren
\* a faulty variant of isWrapped: wrapExpressions is ignored
isWrapped_everywhere(child, wrapExpressions) ==
  \/ child.type = "JSXText" /\ trim(child.value) # <<>>
  \/ child.type = "JSXExpressionContainer" /\ child.expression.type = "Identifier"

\* the children the forEach callback replaces by a span: a text run that is
\* not whitespace, or an identifier expression, when wrapExpressions is set
isWrapped(child, wrapExpressions) ==
  /\ wrapExpressions
  /\ \/ child.type = "JSXText" /\ trim(child.value) # <<>>
     \/ child.type = "JSXExpressionContainer" /\ child.expression.type = "Identifier"

processChild(child, filename, wrapExpressions, context) ==
  IF child.type = "JSXElement"
  THEN Bind(IF ~isReactComponent(child)
            THEN addRenderedByAttributes(child, filename, context, Null)
            ELSE [openingElement |-> child, context |-> context],
         LAMBDA a :
           Bind(processJSXChildren(a.openingElement, filename,
                                   isReactComponent(child), a.context),
             LAMBDA p : [child |-> p.jsxElement, context |-> p.context,
                         hasChanges |-> FALSE]))
  ELSE IF isWrapped(child, wrapExpressions)
  THEN wrapInSpan(child, filename, context)
  ELSE [child |-> child, context |-> context, hasChanges |-> FALSE]

forEachChild(children, filename, wrapExpressions, context) ==
  IF children = <<>>
  THEN [processedChildren |-> <<>>, context |-> context, hasChanges |-> FALSE]
  ELSE Bind(processChild(Head(children), filename, wrapExpressions, context),
         LAMBDA first :
           Bind(forEachChild(Tail(children), filename, wrapExpressions, first.context),
             LAMBDA rest :
               [processedChildren |-> <<first.child>> \o rest.processedChildren,
                context |-> rest.context,
                hasChanges |-> first.hasChanges \/ rest.hasChanges]))

\* Child elements are annotated in place, so the children after the call are
\* processedChildren whether or not the list itself is reassigned (hasChanges).
processJSXChildren(jsxElement, filename, wrapExpressions, context) ==
  Bind(forEachChild(jsxElement.children, filename, wrapExpressions,
                    [context EXCEPT
                       !.elementPath = Append(@, getElementTagName(jsxElement))]),
       LAMBDA each :
         [jsxElement |-> [jsxElement EXCEPT !.children = each.processedChildren],
          context |-> [each.context EXCEPT
                         !.elementPath = SubSeq(@, 1, Len(@) - 1)]])

\* addEditorMetadataToFragmentChildren followed by
\* addRenderedByToFragmentChildren: every element child becomes a root, then
\* the children of every element child are processed
RECURSIVE addEditorMetadataToFragmentChildren(_, _, _, _)
addEditorMetadataToFragmentChildren(children, filename, componentName, context) ==
  IF children = <<>> \/ filename = <<>>
  THEN [children |-> children, context |-> context]
  ELSE Bind(IF Head(children).type = "JSXElement"
            THEN addEditorMetadata(Head(children), filename, componentName, TRUE, context)
            ELSE [openingElement |-> Head(children), context |-> context],
         LAMBDA first :
           Bind(addEditorMetadataToFragmentChildren(
                  Tail(children), filename, componentName, first.context),
             LAMBDA rest : [children |-> <<first.openingElement>> \o rest.children,
                            context |-> rest.context]))

RECURSIVE addRenderedByToFragmentChildren(_, _, _)
addRenderedByToFragmentChildren(children, filename, context) ==
  IF children = <<>>
  THEN [children |-> children, context |-> context]
  ELSE Bind(IF Head(children).type = "JSXElement"
            THEN processJSXChildren(Head(children), filename, FALSE, context)
            ELSE [jsxElement |-> Head(children), context |-> context],
         LAMBDA first :
           Bind(addRenderedByToFragmentChildren(Tail(children), filename, first.context),
             LAMBDA rest : [children |-> <<first.jsxElement>> \o rest.children,
                            context |-> rest.context]))

\* ------------------------------------------------------------------------
\* Loop pass

ArrowFunctionExpression(params, body) ==
  [type |-> "ArrowFunctionExpression", params |-> params, body |-> body]

CallExpression(callee, arguments) ==
  [type |-> "CallExpression", callee |-> callee, arguments |-> arguments]

ArrayExpression(elements) == [type |-> "ArrayExpression", elements |-> elements]

ObjectPattern(properties) == [type |-> "ObjectPattern", properties |-> properties]

\* a declaration the scope of the component function holds for a name
Binding(name, kind, isVariableDeclarator, init) ==
  [name |-> name, kind |-> kind, isVariableDeclarator |-> isVariableDeclarator,
   init |-> init]

IsFunction(node) ==
  node.type \in {"ArrowFunctionExpression", "FunctionExpression"}

\* the names of the referenced identifiers a traversal below (and at) an
\* expression meets when it skips nested functions; the property of a
\* non-computed member access is no reference
RECURSIVE referencedNames(_)
RECURSIVE referencedNamesOfAll(_)
referencedNamesOfAll(nodes) ==
  IF nodes = <<>> THEN {}
  ELSE referencedNames(Head(nodes)) \cup referencedNamesOfAll(Tail(nodes))

referencedNames(node) ==
  IF node.type = "Identifier" THEN {node.name}
  ELSE IF node.type = "MemberExpression"
  THEN referencedNames(node.object)
         \cup (IF node.computed THEN referencedNames(node.property) ELSE {})
  ELSE IF node.type = "CallExpression"
  THEN referencedNames(node.callee) \cup referencedNamesOfAll(node.arguments)
  ELSE IF node.type = "TemplateLiteral" THEN referencedNames(node.expression)
  ELSE IF node.type = "JSXExpressionContainer" THEN referencedNames(node.expression)
  ELSE IF node.type = "JSXAttribute" THEN referencedNames(node.value)
  ELSE IF node.type \in {"JSXElement", "JSXFragment"}
  THEN (IF node.type = "JSXElement" THEN referencedNamesOfAll(node.attributes) ELSE {})
         \cup referencedNamesOfAll(node.children)
  ELSE {}

elementReferencesParamNames(element, names) ==
  IF names = {} THEN FALSE ELSE referencedNames(element) \cap names # {}

\* path.traverse visits what lies below the expression, never the expression
\* itself: a bare identifier references nothing
expressionReferencesNames(expression, itemParamNames) ==
  IF itemParamNames = {} THEN FALSE
  ELSE IF expression.type = "Identifier" THEN FALSE
  ELSE referencedNames(expression) \cap itemParamNames # {}

RECURSIVE collectNamesFromPattern(_)
RECURSIVE collectNamesFromPatterns(_)
collectNamesFromPatterns(patterns) ==
  IF patterns = <<>> THEN {}
  ELSE collectNamesFromPattern(Head(patterns))
         \cup collectNamesFromPatterns(Tail(patterns))

collectNamesFromPattern(param) ==
  IF param.type = "Identifier" THEN {param.name}
  ELSE IF param.type = "AssignmentPattern" THEN collectNamesFromPattern(param.left)
  ELSE IF param.type = "RestElement" THEN collectNamesFromPattern(param.argument)
  ELSE IF param.type = "ObjectPattern" THEN collectNamesFromPatterns(param.properties)
  ELSE IF param.type = "ArrayPattern" THEN collectNamesFromPatterns(param.elements)
  ELSE {}

getIndexParamExpression(callback) ==
  IF Len(callback.params) < 2 THEN Null
  ELSE LET indexParam == callback.params[2]
       IN IF indexParam.type = "Identifier" THEN Identifier(indexParam.name)
          ELSE IF indexParam.type = "AssignmentPattern"
                    /\ indexParam.left.type = "Identifier"
          THEN Identifier(indexParam.left.name)
          ELSE Null

\* the first key attribute whose value is a string literal or an expression
RECURSIVE getKeyExpressionFrom(_)
getKeyExpressionFrom(attributes) ==
  IF attributes = <<>> THEN Null
  ELSE LET attr == Head(attributes)
       IN IF attr.type # "JSXAttribute" \/ attr.name # "key"
               \/ attr.value.type = "null"
          THEN getKeyExpressionFrom(Tail(attributes))
          ELSE IF attr.value.type = "StringLiteral"
          THEN StringLiteral(attr.value.value)
          ELSE IF attr.value.type = "JSXExpressionContainer"
                    /\ attr.value.expression.type # "JSXEmptyExpression"
          THEN attr.value.expression
          ELSE getKeyExpressionFrom(Tail(attributes))

\* a faulty variant of getKeyExpression: the key attribute is not looked at
getKeyExpression_unread(element) == Null

getKeyExpression(element) == getKeyExpressionFrom(element.attributes)

unwrapStaticInitializer(node) ==
  IF node.type \in {"TSAsExpression", "TypeCastExpression", "TSTypeAssertion"}
  THEN node.expression
  ELSE node

isStaticCollectionExpression(node) ==
  node.type # "null" /\ unwrapStaticInitializer(node).type = "ArrayExpression"

\* scope.getBinding(name) over the declarations of the component function
resolveCollectionSourceInfo(sourceIdentifier, scope) ==
  LET found == {i \in DOMAIN scope : scope[i].name = sourceIdentifier.name}
      binding == scope[CHOOSE i \in found : TRUE]
      initNode == IF binding.init.type = "null" THEN Null
                  ELSE unwrapStaticInitializer(binding.init)
  IN IF found = {} THEN Null
     ELSE IF binding.kind = "module" THEN Null
     ELSE IF ~binding.isVariableDeclarator THEN Null
     ELSE IF initNode.type = "null" \/ ~isStaticCollectionExpression(initNode) THEN Null
     ELSE [type |-> "CollectionSourceInfo", sourceName |-> sourceIdentifier.name]

BlockStatement(body) == [type |-> "BlockStatement", body |-> body]

ReturnStatement(argument) == [type |-> "ReturnStatement", argument |-> argument]

\* the places of the elements among nodes, each behind prefix
RECURSIVE elementPlaces(_, _, _)
elementPlaces(nodes, k, prefix) ==
  IF k > Len(nodes) THEN <<>>
  ELSE (IF nodes[k].type = "JSXElement" THEN << Append(prefix, k) >> ELSE <<>>)
         \o elementPlaces(nodes, k + 1, prefix)

\* the places of what the return statements among statements return: the
\* returned element, or the element children of the returned fragment
RECURSIVE returnedPlaces(_, _)
returnedPlaces(statements, k) ==
  IF k > Len(statements) THEN <<>>
  ELSE (IF statements[k].type # "ReturnStatement" THEN <<>>
        ELSE IF statements[k].argument.type = "JSXElement" THEN << <<0, k>> >>
        ELSE IF statements[k].argument.type = "JSXFragment"
        THEN elementPlaces(statements[k].argument.children, 1, <<0, k>>)
        ELSE <<>>)
         \o returnedPlaces(statements, k + 1)

\* the returned elements with their places below the callback: <<0>> is the
\* body, <<0, k>> the k-th child of a returned fragment; under a block body
\* <<0, k>> is what its k-th statement returns and <<0, k, j>> the j-th child
\* of the fragment it returns
getReturnedJSXElements(callback) ==
  IF callback.body.type = "JSXElement" THEN << <<0>> >>
  ELSE IF callback.body.type = "JSXFragment"
  THEN elementPlaces(callback.body.children, 1, <<0>>)
  ELSE IF callback.body.type = "BlockStatement"
  THEN returnedPlaces(callback.body.body, 1)
  ELSE <<>>

getPropertySegment(property, computed) ==
  IF property.type = "PrivateName" THEN Null
  ELSE IF ~computed /\ property.type = "Identifier"
  THEN JsString(<<".">> \o property.name)
  ELSE IF ~computed /\ property.type = "StringLiteral"
  THEN JsString(<<".">> \o property.value)
  ELSE IF property.type = "StringLiteral"
  THEN JsString(<<"[", "\"">> \o property.value \o <<"\"", "]">>)
  ELSE IF property.type = "NumericLiteral"
  THEN JsString(<<"[">> \o property.value \o <<"]">>)
  ELSE Null

RECURSIVE buildPropertyPathFromExpression(_, _)
buildPropertyPathFromExpression(expression, itemParamNames) ==
  IF expression.type = "Identifier"
  THEN IF expression.name \in itemParamNames THEN JsString(<<>>) ELSE Null
  ELSE IF expression.type \in {"MemberExpression", "OptionalMemberExpression"}
  THEN LET objectPath ==
             buildPropertyPathFromExpression(expression.object, itemParamNames)
           propertySegment ==
             getPropertySegment(expression.property, expression.computed)
       IN IF objectPath.type = "null" THEN Null
          ELSE IF propertySegment.type = "null" THEN Null
          ELSE JsString(objectPath.value \o propertySegment.value)
  ELSE Null

RECURSIVE unwrapExpression(_)
unwrapExpression(expression) ==
  IF expression.type \in {"TSAsExpression", "TypeCastExpression",
                          "TSTypeAssertion", "ParenthesizedExpression"}
  THEN unwrapExpression(expression.expression)
  ELSE expression

extractPropertyPath(expression, itemParamNames) ==
  LET path == buildPropertyPathFromExpression(
                unwrapExpression(expression), itemParamNames)
  IN IF path.type = "null" \/ path.value = <<>> THEN Null ELSE path

buildCollectionSourceAttributeValue(filename, sourceName, dynamicExpression, propertyPath) ==
  LET baseSegment == IF filename # <<>> THEN filename \o <<":">> \o sourceName
                     ELSE sourceName
      propertySuffix == IF propertyPath.type = "null" THEN <<>> ELSE propertyPath.value
  IN IF baseSegment = <<>> THEN Null
     ELSE IF dynamicExpression.type = "null"
     THEN JsString(baseSegment \o propertySuffix)
     ELSE IF dynamicExpression.type = "StringLiteral"
     THEN JsString(baseSegment \o <<"[", "\"">> \o dynamicExpression.value
                     \o <<"\"", "]">> \o propertySuffix)
     ELSE IF dynamicExpression.type = "NumericLiteral"
     THEN JsString(baseSegment \o <<"[">> \o dynamicExpression.value \o <<"]">>
                     \o propertySuffix)
     ELSE JSXExpressionContainer(
            TemplateLiteral(baseSegment \o <<"[">>, dynamicExpression,
                            <<"]">> \o propertySuffix))

LoopContext(idExpression, sourceExpression, itemParamNames, collectionSourceName) ==
  [idExpression |-> idExpression, sourceExpression |-> sourceExpression,
   itemParamNames |-> itemParamNames, collectionSourceName |-> collectionSourceName]

\* the first expression child that references an item name decides
RECURSIVE getDynamicChildInfoFrom(_, _)
getDynamicChildInfoFrom(children, itemParamNames) ==
  IF children = <<>> THEN Null
  ELSE LET child == Head(children)
       IN IF child.type # "JSXExpressionContainer"
          THEN getDynamicChildInfoFrom(Tail(children), itemParamNames)
          ELSE IF child.expression.type = "JSXEmptyExpression"
          THEN getDynamicChildInfoFrom(Tail(children), itemParamNames)
          ELSE IF ~expressionReferencesNames(child.expression, itemParamNames)
          THEN getDynamicChildInfoFrom(Tail(children), itemParamNames)
          ELSE [type |-> "DynamicChildInfo",
                propertyPath |-> extractPropertyPath(child.expression, itemParamNames)]

getDynamicChildInfo(element, itemParamNames) ==
  getDynamicChildInfoFrom(element.children, itemParamNames)

annotateDynamicChildrenForElement(element, filename, loopContext) ==
  IF loopContext.sourceExpression.type = "null" THEN element
  ELSE IF isReactComponent(element) THEN element
  ELSE LET dynamicChildInfo == getDynamicChildInfo(element, loopContext.itemParamNames)
           value == buildCollectionSourceAttributeValue(
                      filename, loopContext.collectionSourceName,
                      loopContext.sourceExpression, dynamicChildInfo.propertyPath)
       IN IF dynamicChildInfo.type = "null" THEN element
          ELSE IF value.type = "null" THEN element
          ELSE setOrUpdateAttribute(element, "data-children-source", value)

\* every src attribute holding an expression that references an item name
\* writes data-img-source, in attribute order
RECURSIVE annotateImgSourceFrom(_, _, _, _)
annotateImgSourceFrom(element, k, filename, loopContext) ==
  IF k > Len(element.attributes) THEN element
  ELSE LET attr == element.attributes[k]
           use == /\ attr.type = "JSXAttribute"
                  /\ attr.name = "src"
                  /\ attr.value.type = "JSXExpressionContainer"
                  /\ attr.value.expression.type # "JSXEmptyExpression"
                  /\ expressionReferencesNames(
                       attr.value.expression, loopContext.itemParamNames)
           sourceValue ==
             buildCollectionSourceAttributeValue(
               filename, loopContext.collectionSourceName,
               loopContext.sourceExpression,
               extractPropertyPath(attr.value.expression, loopContext.itemParamNames))
       IN IF use /\ sourceValue.type # "null"
          THEN annotateImgSourceFrom(
                 setOrUpdateAttribute(element, "data-img-source", sourceValue),
                 k + 1, filename, loopContext)
          ELSE annotateImgSourceFrom(element, k + 1, filename, loopContext)

annotateImgSource(element, filename, loopContext) ==
  IF loopContext.sourceExpression.type = "null" THEN element
  ELSE IF element.name # <<"i", "m", "g">> THEN element
  ELSE annotateImgSourceFrom(element, 1, filename, loopContext)

\* annotateElement of applyLoopAnnotations: key is the node, rootKey the
\* element applyLoopAnnotations was called for, processed the WeakSet
annotateElement(element, key, rootKey, filename, context, loopContext, processed) ==
  IF key \in processed /\ key # rootKey
  THEN [element |-> element, context |-> context]
  ELSE Bind(IF /\ loopContext.idExpression.type # "null"
               /\ ~isReactComponent(element)
               /\ elementReferencesParamNames(element, loopContext.itemParamNames)
            THEN addRenderedByAttributes(
                   element, filename, context, loopContext.idExpression)
            ELSE [openingElement |-> element, context |-> context],
         LAMBDA assigned :
           [element |->
              annotateImgSource(
                annotateDynamicChildrenForElement(
                  assigned.openingElement, filename, loopContext),
                filename, loopContext),
            context |-> assigned.context])

\* elementPath.traverse({JSXElement}): every JSXElement below a node, in
\* document order, nested callbacks included
RECURSIVE traverseJSXElements(_, _, _, _, _, _, _)
RECURSIVE traverseJSXElementsOfAll(_, _, _, _, _, _, _, _)

traverseJSXElementsOfAll(nodes, k, key, rootKey, filename, context, loopContext, processed) ==
  IF k > Len(nodes) THEN [nodes |-> nodes, context |-> context]
  ELSE Bind(traverseJSXElements(nodes[k], Append(key, k), rootKey, filename,
                                context, loopContext, processed),
         LAMBDA r :
           traverseJSXElementsOfAll([nodes EXCEPT ![k] = r.node], k + 1, key, rootKey,
                                    filename, r.context, loopContext, processed))

traverseJSXElements(node, key, rootKey, filename, context, loopContext, processed) ==
  IF node.type \in {"JSXElement", "JSXFragment"}
  THEN Bind(IF node.type = "JSXElement"
            THEN annotateElement(node, key, rootKey, filename, context,
                                 loopContext, processed)
            ELSE [element |-> node, context |-> context],
         LAMBDA a :
           Bind(traverseJSXElementsOfAll(a.element.children, 1, key, rootKey,
                                         filename, a.context, loopContext, processed),
             LAMBDA c : [node |-> [a.element EXCEPT !.children = c.nodes],
                         context |-> c.context]))
  ELSE IF node.type = "JSXExpressionContainer"
            /\ node.expression.type = "CallExpression"
            /\ Len(node.expression.arguments) > 0
            /\ IsFunction(node.expression.arguments[1])
  THEN Bind(traverseJSXElements(node.expression.arguments[1].body, Append(key, 0),
                                rootKey, filename, context, loopContext, processed),
         LAMBDA b : [node |-> [node EXCEPT !.expression.arguments[1].body = b.node],
                     context |-> b.context])
  ELSE [node |-> node, context |-> context]

\* annotateElement(elementPath), then the traversal below it
applyLoopAnnotations(element, key, filename, context, loopContext, processed) ==
  Bind(traverseJSXElements(element, key, key, filename, context, loopContext,
                           processed),
       LAMBDA r : [element |-> r.node, context |-> r.context])

processLoopElement(element, key, filename, context, collectionInfo, itemParamNames, indexExpression, processed) ==
  IF key \in processed
  THEN [element |-> element, context |-> context, processed |-> processed]
  ELSE IF ~elementReferencesParamNames(element, itemParamNames)
  THEN [element |-> element, context |-> context, processed |-> processed]
  ELSE Bind(getKeyExpression(element), LAMBDA keyExpression :
       Bind(IF keyExpression.type # "null" THEN keyExpression ELSE indexExpression,
         LAMBDA idExpressionBase :
       Bind(IF indexExpression.type # "null" THEN indexExpression ELSE keyExpression,
         LAMBDA sourceExpressionBase :
       Bind(addRenderedByAttributes(element, filename, context, idExpressionBase),
         LAMBDA a :
       Bind(processJSXChildren(a.openingElement, filename, FALSE, a.context),
         LAMBDA p :
       Bind(applyLoopAnnotations(
              p.jsxElement, key, filename, p.context,
              LoopContext(idExpressionBase, sourceExpressionBase,
                          itemParamNames, collectionInfo.sourceName),
              processed \cup {key}),
         LAMBDA r : [element |-> r.element, context |-> r.context,
                     processed |-> processed \cup {key}]))))))

\* the node at a place below a callback, and the callback with it replaced
returnedElementAt(callback, place) ==
  IF Len(place) = 1 THEN callback.body
  ELSE IF callback.body.type = "JSXFragment" THEN callback.body.children[place[2]]
  ELSE IF Len(place) = 2 THEN callback.body.body[place[2]].argument
  ELSE callback.body.body[place[2]].argument.children[place[3]]

withReturnedElementAt(callback, place, element) ==
  IF Len(place) = 1 THEN [callback EXCEPT !.body = element]
  ELSE IF callback.body.type = "JSXFragment"
  THEN [callback EXCEPT !.body.children[place[2]] = element]
  ELSE IF Len(place) = 2
  THEN [callback EXCEPT !.body.body[place[2]].argument = element]
  ELSE [callback EXCEPT !.body.body[place[2]].argument.children[place[3]] = element]

RECURSIVE forEachReturnedElement(_, _, _, _, _, _, _, _, _)
forEachReturnedElement(callback, places, key, filename, context, collectionInfo, itemParamNames, indexExpression, processed) ==
  IF places = <<>>
  THEN [callback |-> callback, context |-> context, processed |-> processed]
  ELSE Bind(processLoopElement(returnedElementAt(callback, Head(places)),
                               key \o Head(places), filename, context, collectionInfo,
                               itemParamNames, indexExpression, processed),
         LAMBDA r :
           forEachReturnedElement(
             withReturnedElementAt(callback, Head(places), r.element),
             Tail(places), key, filename, r.context, collectionInfo,
             itemParamNames, indexExpression, r.processed))

\* the names the first parameter of the callback binds
itemParamNamesOf(callback) ==
  IF Len(callback.params) > 0
  THEN collectNamesFromPattern(callback.params[1])
  ELSE {}

\* call is a CallExpression met inside a JSX expression slot of the component
\* function whose scope is given; key is the place of its slot
isCollectionRenderingCall(call, filename, scope) ==
  /\ filename # <<>>
  /\ call.callee.type = "MemberExpression"
  /\ ~call.callee.computed
  /\ call.callee.property.type = "Identifier"
  /\ call.callee.property.name = <<"m", "a", "p">>
  /\ Len(call.arguments) > 0
  /\ IsFunction(call.arguments[1])
  /\ call.callee.object.type = "Identifier"
  /\ resolveCollectionSourceInfo(call.callee.object, scope).type # "null"
  /\ getReturnedJSXElements(call.arguments[1]) # <<>>
  /\ itemParamNamesOf(call.arguments[1]) # {}

processCollectionRenderingCall(call, key, filename, context, scope, processed) ==
  IF ~isCollectionRenderingCall(call, filename, scope)
  THEN [call |-> call, context |-> context, processed |-> processed]
  ELSE Bind(forEachReturnedElement(
              call.arguments[1], getReturnedJSXElements(call.arguments[1]), key,
              filename, context,
              resolveCollectionSourceInfo(call.callee.object, scope),
              itemParamNamesOf(call.arguments[1]),
              getIndexParamExpression(call.arguments[1]), processed),
         LAMBDA r : [call |-> [call EXCEPT !.arguments[1] = r.callback],
                     context |-> r.context, processed |-> r.processed])

\* functionLikePath.traverse({CallExpression}): every call expression in a
\* JSX expression slot of the returned tree, in document order; the
\* traversal goes on into the callback it has just processed
RECURSIVE traverseCallExpressions(_, _, _, _, _, _)
RECURSIVE traverseCallExpressionsOfAll(_, _, _, _, _, _, _)

traverseCallExpressionsOfAll(nodes, k, key, filename, context, scope, processed) ==
  IF k > Len(nodes)
  THEN [nodes |-> nodes, context |-> context, processed |-> processed]
  ELSE Bind(traverseCallExpressions(nodes[k], Append(key, k), filename, context,
                                    scope, processed),
         LAMBDA r :
           traverseCallExpressionsOfAll([nodes EXCEPT ![k] = r.node], k + 1, key,
                                        filename, r.context, scope, r.processed))

traverseCallExpressions(node, key, filename, context, scope, processed) ==
  IF node.type \in {"JSXElement", "JSXFragment"}
  THEN Bind(traverseCallExpressionsOfAll(node.children, 1, key, filename,
                                         context, scope, processed),
         LAMBDA c : [node |-> [node EXCEPT !.children = c.nodes],
                     context |-> c.context, processed |-> c.processed])
  ELSE IF node.type = "JSXExpressionContainer"
            /\ node.expression.type = "CallExpression"
  THEN Bind(processCollectionRenderingCall(node.expression, key, filename,
                                           context, scope, processed),
         LAMBDA p :
           IF Len(p.call.arguments) > 0 /\ IsFunction(p.call.arguments[1])
           THEN Bind(traverseCallExpressions(
                       p.call.arguments[1].body, Append(key, 0), filename,
                       p.context, scope, p.processed),
                  LAMBDA b :
                    [node |-> [node EXCEPT
                                 !.expression =
                                   [p.call EXCEPT !.arguments[1].body = b.node]],
                     context |-> b.context, processed |-> b.processed])
           ELSE [node |-> [node EXCEPT !.expression = p.call],
                 context |-> p.context, processed |-> p.processed])
  ELSE IF node.type = "BlockStatement"
  THEN Bind(traverseCallExpressionsOfAll(node.body, 1, key, filename,
                                         context, scope, processed),
         LAMBDA c : [node |-> [node EXCEPT !.body = c.nodes],
                     context |-> c.context, processed |-> c.processed])
  ELSE IF node.type = "ReturnStatement"
  THEN Bind(traverseCallExpressions(node.argument, key, filename, context,
                                    scope, processed),
         LAMBDA a : [node |-> [node EXCEPT !.argument = a.node],
                     context |-> a.context, processed |-> a.processed])
  ELSE IF IsFunction(node)
  THEN Bind(traverseCallExpressions(node.body, Append(key, 1), filename, context,
                                    scope, processed),
         LAMBDA b : [node |-> [node EXCEPT !.body = b.node],
                     context |-> b.context, processed |-> b.processed])
  ELSE [node |-> node, context |-> context, processed |-> processed]

\* ------------------------------------------------------------------------
\* Factory-call compatibility path

ObjectExpression(properties) ==
  [type |-> "ObjectExpression", properties |-> properties]

ObjectProperty(key, value) == [type |-> "ObjectProperty", key |-> key, value |-> value]

RECURSIVE convertCreateElementToJSX(_)

\* props.properties.forEach: string-literal and identifier keys become
\* attributes, string values as literals and the rest as expressions
RECURSIVE attributesOfProps(_)
attributesOfProps(properties) ==
  IF properties = <<>> THEN <<>>
  ELSE LET prop == Head(properties)
           named == prop.type = "ObjectProperty"
                      /\ prop.key.type \in {"StringLiteral", "Identifier"}
           keyName == IF prop.key.type = "StringLiteral" THEN prop.key.value
                      ELSE prop.key.name
       IN (IF named /\ keyName # <<>>
           THEN IF prop.value.type = "StringLiteral"
                THEN << JSXAttribute(Text(keyName), StringLiteral(prop.value.value)) >>
                ELSE << JSXAttribute(Text(keyName), JSXExpressionContainer(prop.value)) >>
           ELSE <<>>)
          \o attributesOfProps(Tail(properties))

RECURSIVE childrenOfArguments(_)
childrenOfArguments(children) ==
  IF children = <<>> THEN <<>>
  ELSE LET child == Head(children)
           nestedJSX == convertCreateElementToJSX(child)
       IN (IF child.type = "StringLiteral" THEN << JSXText(child.value) >>
           ELSE IF child.type = "CallExpression"
           THEN IF nestedJSX.type # "null" THEN << nestedJSX >>
                ELSE << JSXExpressionContainer(child) >>
           ELSE IF child.type \in {"SpreadElement", "JSXSpreadChild"} THEN <<>>
           ELSE << JSXExpressionContainer(child) >>)
          \o childrenOfArguments(Tail(children))

convertCreateElementToJSX(callExpression) ==
  IF /\ callExpression.callee.type = "MemberExpression"
     /\ callExpression.callee.object = Identifier(<<"R", "e", "a", "c", "t">>)
     /\ callExpression.callee.property
          = Identifier(<<"c", "r", "e", "a", "t", "e", "E", "l", "e", "m", "e", "n", "t">>)
     /\ Len(callExpression.arguments) > 0
     /\ callExpression.arguments[1].type = "StringLiteral"
  THEN LET elementType == callExpression.arguments[1]
           props == IF Len(callExpression.arguments) > 1
                    THEN callExpression.arguments[2] ELSE Null
           children == SubSeq(callExpression.arguments, 3, Len(callExpression.arguments))
       IN JSXElement(elementType.value,
                     IF props.type = "ObjectExpression"
                     THEN attributesOfProps(props.properties) ELSE <<>>,
                     childrenOfArguments(children))
  ELSE Null

\* ------------------------------------------------------------------------
\* Root pass, continued

\* what a return statement (or an arrow function's expression body) hands to
\* the annotator: a JSXElement, a JSXFragment, a factory call or anything else
processComponentReturn(argument, filename, componentName, context) ==
  Bind(IF argument.type = "CallExpression"
       THEN convertCreateElementToJSX(argument)
       ELSE argument,
    LAMBDA jsxElement :
      IF jsxElement.type = "JSXElement"
      THEN Bind(addEditorMetadata(jsxElement, filename, componentName, TRUE, context),
             LAMBDA m :
               Bind(processJSXChildren(m.openingElement, filename, FALSE, m.context),
                 LAMBDA p : [argument |-> p.jsxElement, context |-> p.context]))
      ELSE IF argument.type = "JSXFragment"
      THEN Bind(addEditorMetadataToFragmentChildren(
                  argument.children, filename, componentName, context),
             LAMBDA m :
               Bind(addRenderedByToFragmentChildren(m.children, filename, m.context),
                 LAMBDA p : [argument |-> [argument EXCEPT !.children = p.children],
                             context |-> p.context]))
      ELSE [argument |-> argument, context |-> context])

\* ------------------------------------------------------------------------
\* Components

\* a component definition: a function declaration or a variable bound to an
\* arrow function or function expression, named id; returns lists the
\* arguments of the return statements of its body in source order (for an
\* arrow function with an expression body, that expression); scope holds the
\* declarations of its body
Component(kind, id, returns, scope) ==
  [kind |-> kind, id |-> id, returns |-> returns, scope |-> scope]

\* path.traverse({ReturnStatement}) below a node the traversal has entered:
\* every return statement it meets on its way down, those of the functions
\* nested in the node included, is handed to processComponentReturn, and the
\* traversal goes on into what the statement returns
RECURSIVE traverseReturnStatements(_, _, _, _)
RECURSIVE traverseReturnStatementsOfAll(_, _, _, _, _)

traverseReturnStatementsOfAll(nodes, k, filename, componentName, context) ==
  IF k > Len(nodes) THEN [nodes |-> nodes, context |-> context]
  ELSE Bind(traverseReturnStatements(nodes[k], filename, componentName, context),
         LAMBDA r :
           traverseReturnStatementsOfAll([nodes EXCEPT ![k] = r.node], k + 1,
                                         filename, componentName, r.context))

traverseReturnStatements(node, filename, componentName, context) ==
  IF node.type \in {"JSXElement", "JSXFragment"}
  THEN Bind(traverseReturnStatementsOfAll(node.children, 1, filename,
                                          componentName, context),
         LAMBDA c : [node |-> [node EXCEPT !.children = c.nodes],
                     context |-> c.context])
  ELSE IF node.type = "JSXExpressionContainer"
  THEN Bind(traverseReturnStatements(node.expression, filename, componentName,
                                     context),
         LAMBDA e : [node |-> [node EXCEPT !.expression = e.node],
                     context |-> e.context])
  ELSE IF node.type = "CallExpression"
  THEN Bind(traverseReturnStatementsOfAll(node.arguments, 1, filename,
                                          componentName, context),
         LAMBDA a : [node |-> [node EXCEPT !.arguments = a.nodes],
                     context |-> a.context])
  ELSE IF IsFunction(node)
  THEN Bind(traverseReturnStatements(node.body, filename, componentName, context),
         LAMBDA f : [node |-> [node EXCEPT !.body = f.node],
                     context |-> f.context])
  ELSE IF node.type = "BlockStatement"
  THEN Bind(traverseReturnStatementsOfAll(node.body, 1, filename, componentName,
                                          context),
         LAMBDA s : [node |-> [node EXCEPT !.body = s.nodes],
                     context |-> s.context])
  ELSE IF node.type = "ReturnStatement"
  THEN Bind(processComponentReturn(node.argument, filename, componentName, context),
         LAMBDA r :
           Bind(traverseReturnStatements(r.argument, filename, componentName,
                                         r.context),
             LAMBDA below : [node |-> [node EXCEPT !.argument = below.node],
                             context |-> below.context]))
  ELSE [node |-> node, context |-> context]

\* the root pass over the returns of a component: under an arrow function
\* with an expression body the body alone is processed; under the other
\* kinds the traversal that finds the return statements of the component
\* goes on below each of them
RECURSIVE forEachReturn(_, _, _, _, _, _)
forEachReturn(kind, returns, k, filename, componentName, context) ==
  IF k > Len(returns) THEN [returns |-> returns, context |-> context]
  ELSE Bind(IF kind = "ArrowFunctionExpression"
            THEN processComponentReturn(returns[k], filename, componentName, context)
            ELSE Bind(traverseReturnStatements(ReturnStatement(returns[k]), filename,
                                                componentName, context),
                   LAMBDA s : [argument |-> s.node.argument, context |-> s.context]),
         LAMBDA r :
           forEachReturn(kind, [returns EXCEPT ![k] = r.argument], k + 1, filename,
                         componentName, r.context))

\* functionLikePath.traverse({ CallExpression }) over the declarations of the
\* function's body: the calls in the functions declared there, before those
\* of what the function returns
RECURSIVE traverseCallExpressionsOfDeclarations(_, _, _, _, _, _)
traverseCallExpressionsOfDeclarations(declared, j, key, filename, context, processed) ==
  IF j > Len(declared)
  THEN [declared |-> declared, context |-> context, processed |-> processed]
  ELSE IF ~IsFunction(declared[j].init)
  THEN traverseCallExpressionsOfDeclarations(declared, j + 1, key, filename,
                                             context, processed)
  ELSE Bind(traverseCallExpressions(declared[j].init, key \o <<0, j>>, filename,
                                    context, declared, processed),
         LAMBDA r :
           traverseCallExpressionsOfDeclarations(
             [declared EXCEPT ![j].init = r.node], j + 1, key, filename,
             r.context, r.processed))

\* processComponent: a fresh context, the root pass over every return, then
\* the loop pass over the call expressions of the function; key names the
\* component's nodes and processed is the module's processedLoopElements
processComponent(component, key, componentName, filename, processed) ==
  Bind(forEachReturn(component.kind, component.returns, 1, filename,
                     componentName, IdGenerationContext(filename)),
    LAMBDA roots :
      Bind(traverseCallExpressionsOfDeclarations(
             component.scope, 1, key, filename, roots.context, processed),
        LAMBDA declarations :
          Bind(traverseCallExpressionsOfAll(
                 roots.returns, 1, key, filename, declarations.context,
                 component.scope, declarations.processed),
            LAMBDA loops :
              [component |-> [component EXCEPT !.returns = loops.nodes,
                                               !.scope = declarations.declared],
               context |-> loops.context,
               processed |-> loops.processed])))

\* ------------------------------------------------------------------------
\* Source locations of literal collections (loopMetadata.ts, propertyAccess.ts)

NumericLiteral(value) == [type |-> "NumericLiteral", value |-> value]

SpreadElement(argument) == [type |-> "SpreadElement", argument |-> argument]

\* node.loc of a parsed node: zero-based columns
SourceLocation(startLine, startColumn, endLine, endColumn) ==
  [type |-> "SourceLocation",
   start |-> [line |-> startLine, column |-> startColumn],
   end |-> [line |-> endLine, column |-> endColumn]]

\* the node as the parser leaves it, with its loc
located(node, loc) ==
  [field \in DOMAIN node \cup {"loc"} |->
     IF field = "loc" THEN loc ELSE node[field]]

\* node.loc, null on a node that was not parsed from the file
locOf(node) == IF "loc" \in DOMAIN node THEN node.loc ELSE Null

Digits == <<"0", "1", "2", "3", "4", "5", "6", "7", "8", "9">>

\* Number.prototype.toString of a non-negative integer
RECURSIVE toString(_)
toString(n) ==
  IF n < Len(Digits) THEN <<Digits[n + 1]>>
  ELSE toString(n \div Len(Digits)) \o <<Digits[(n % Len(Digits)) + 1]>>

\* the characters JSON.stringify escapes among those of paths and accessors
RECURSIVE escaped(_)
escaped(s) ==
  IF s = <<>> THEN <<>>
  ELSE (IF Head(s) \in {"\"", "\\"} THEN <<"\\", Head(s)>> ELSE <<Head(s)>>)
         \o escaped(Tail(s))

\* JSON.stringify of a string
quoted(s) == <<"\"">> \o escaped(s) \o <<"\"">>

\* JSON.stringify of an object whose members are strings, in insertion order
stringify(members) ==
  <<"{">>
    \o join([k \in DOMAIN members |->
               quoted(members[k][1]) \o <<":">> \o quoted(members[k][2])],
            <<",">>)
    \o <<"}">>

\* `${line}:${column}`
position(line, column) == toString(line) \o <<":">> \o toString(column)

\* { file, start, end } of formatLocation: one-based columns
locationDescriptor(filename, loc) ==
  << << <<"f", "i", "l", "e">>, filename >>,
     << <<"s", "t", "a", "r", "t">>,
        position(loc.start.line, loc.start.column + 1) >>,
     << <<"e", "n", "d">>,
        position(loc.end.line, loc.end.column + 1) >> >>

\* loopMetadata.ts
formatLocation(filename, loc) == stringify(locationDescriptor(filename, loc))

\* a segment of a property access
PropertySegment(name) == [type |-> "segment", kind |-> "property", name |-> name]
IndexSegment(at) == [type |-> "segment", kind |-> "index", index |-> at]
VariableIndexSegment(variable) ==
  [type |-> "segment", kind |-> "variable_index", variable |-> variable]

\* loopMetadata.ts: a numeric key is an index into an array literal
getPropertyAccessSegment(property, computed) ==
  IF property.type = "PrivateName" THEN Null
  ELSE IF ~computed /\ property.type = "Identifier"
  THEN PropertySegment(property.name)
  ELSE IF property.type = "StringLiteral"
  THEN PropertySegment(property.value)
  ELSE IF property.type = "NumericLiteral"
  THEN IndexSegment(property.value)
  ELSE Null

\* loopMetadata.ts: the segments of an access that starts at an item name, null
\* for any other expression
RECURSIVE buildPropertySegmentsFromExpression(_, _)
buildPropertySegmentsFromExpression(expression, itemParamNames) ==
  IF expression.type = "Identifier"
  THEN IF expression.name \in itemParamNames
       THEN [type |-> "segments", segments |-> <<>>] ELSE Null
  ELSE IF expression.type \in {"MemberExpression", "OptionalMemberExpression"}
  THEN LET baseSegments ==
             buildPropertySegmentsFromExpression(expression.object, itemParamNames)
           segment ==
             getPropertyAccessSegment(expression.property, expression.computed)
       IN IF baseSegments.type = "null" THEN Null
          ELSE IF segment.type = "null" THEN Null
          ELSE [type |-> "segments",
                segments |-> Append(baseSegments.segments, segment)]
  ELSE Null

extractPropertySegments(expression, itemParamNames) ==
  buildPropertySegmentsFromExpression(unwrapExpression(expression), itemParamNames)

\* the first ObjectProperty of the object literal whose key is the identifier
\* or the string name (and, where numericKeys, the number whose text is name)
RECURSIVE matchedProperty(_, _, _)
matchedProperty(properties, name, numericKeys) ==
  IF properties = <<>> THEN Null
  ELSE LET prop == Head(properties)
       IN IF prop.type = "ObjectProperty"
             /\ \/ prop.key.type = "Identifier" /\ prop.key.name = name
                \/ prop.key.type = "StringLiteral" /\ prop.key.value = name
                \/ /\ numericKeys
                   /\ prop.key.type = "NumericLiteral"
                   /\ toString(prop.key.value) = name
          THEN prop
          ELSE matchedProperty(Tail(properties), name, numericKeys)

\* t.isExpression of an element of an array literal
isExpressionNode(node) ==
  node.type \notin {"null", "SpreadElement", "TSParameterProperty"}

\* currentNode.elements[index]
elementAt(arrayExpression, at) ==
  IF at + 1 \in DOMAIN arrayExpression.elements
  THEN arrayExpression.elements[at + 1] ELSE Null

\* loopMetadata.ts, the loop over the segments of getLocationForSegments: the
\* node the walk ends at, or null where a segment does not match the literal
RECURSIVE walkSegments(_, _)
walkSegments(currentNode, segments) ==
  IF segments = <<>> THEN currentNode
  ELSE IF Head(segments).kind = "property"
  THEN IF currentNode.type # "ObjectExpression" THEN Null
       ELSE Bind(matchedProperty(currentNode.properties, Head(segments).name, FALSE),
              LAMBDA matched :
                IF matched.type = "null" THEN Null
                ELSE walkSegments(matched.value, Tail(segments)))
  ELSE IF currentNode.type # "ArrayExpression" THEN Null
       ELSE Bind(elementAt(currentNode, Head(segments).index),
              LAMBDA arrayElement :
                IF ~isExpressionNode(arrayElement) THEN Null
                ELSE walkSegments(arrayElement, Tail(segments)))

\* loopMetadata.ts: the descriptor of what the segments reach in one element
\* of the literal array
getLocationForSegments(filename, element, segments) ==
  IF element.type = "null" THEN Null
  ELSE IF element.type = "SpreadElement" THEN Null
  ELSE Bind(walkSegments(element, segments),
         LAMBDA currentNode :
           IF currentNode.type = "null" THEN Null
           ELSE LET loc == IF locOf(currentNode).type # "null"
                           THEN locOf(currentNode) ELSE locOf(element)
                IN IF loc.type = "null" THEN Null
                   ELSE JsString(formatLocation(filename, loc)))

\* locations.filter((loc) => !!loc)
RECURSIVE available(_)
available(locations) ==
  IF locations = <<>> THEN <<>>
  ELSE (IF Head(locations).type = "null" \/ Head(locations).value = <<>>
        THEN <<>> ELSE <<Head(locations)>>) \o available(Tail(locations))

\* locations.map((loc) => loc ? t.stringLiteral(loc) : t.nullLiteral())
locationElements(locations) ==
  [k \in DOMAIN locations |->
     IF locations[k].type = "null" \/ locations[k].value = <<>>
     THEN [type |-> "NullLiteral"] ELSE StringLiteral(locations[k].value)]

\* { [...locationElements][indexExpression] }
indexedLocations(locations, indexExpression) ==
  JSXExpressionContainer(
    MemberExpression(ArrayExpression(locationElements(locations)),
                     indexExpression, TRUE))

\* loopMetadata.ts
buildCollectionLocationAttributeValue(filename, elementPaths, indexExpression, segments) ==
  LET locations == [k \in DOMAIN elementPaths |->
                      getLocationForSegments(filename, elementPaths[k], segments)]
      availableLocations == available(locations)
  IN IF Len(availableLocations) = 0 THEN Null
     ELSE IF indexExpression.type = "null"
     THEN IF Len(availableLocations) = 1 THEN availableLocations[1] ELSE Null
     ELSE IF Len(elementPaths) = 1 THEN availableLocations[1]
     ELSE indexedLocations(locations, indexExpression)

\* propertyAccess.ts: a numeric key is a property named by its text
propertyAccess_getPropertyAccessSegment(property, computed) ==
  IF property.type = "PrivateName" THEN Null
  ELSE IF ~computed /\ property.type = "Identifier"
  THEN PropertySegment(property.name)
  ELSE IF property.type = "StringLiteral"
  THEN PropertySegment(property.value)
  ELSE IF property.type = "NumericLiteral"
  THEN PropertySegment(toString(property.value))
  ELSE Null

\* a faulty variant of buildPropertyAccess: a link that gives no segment ends
\* the path at the links before it
RECURSIVE buildPropertyAccess_truncating(_)
buildPropertyAccess_truncating(expression) ==
  IF expression.type = "Identifier"
  THEN [type |-> "access", baseName |-> expression.name, segments |-> <<>>]
  ELSE IF expression.type \in {"MemberExpression", "OptionalMemberExpression"}
  THEN LET baseAccess == buildPropertyAccess_truncating(expression.object)
           segment == propertyAccess_getPropertyAccessSegment(
                        expression.property, expression.computed)
       IN IF baseAccess.type = "null" THEN Null
          ELSE IF segment.type = "null" THEN baseAccess
          ELSE [type |-> "access", baseName |-> baseAccess.baseName,
                segments |-> Append(baseAccess.segments, segment)]
  ELSE Null

\* propertyAccess.ts: { baseName, segments } of an access, whatever name it
\* starts at
RECURSIVE buildPropertyAccess(_)
buildPropertyAccess(expression) ==
  IF expression.type = "Identifier"
  THEN [type |-> "access", baseName |-> expression.name, segments |-> <<>>]
  ELSE IF expression.type \in {"MemberExpression", "OptionalMemberExpression"}
  THEN LET baseAccess == buildPropertyAccess(expression.object)
           segment == propertyAccess_getPropertyAccessSegment(
                        expression.property, expression.computed)
       IN IF baseAccess.type = "null" THEN Null
          ELSE IF segment.type = "null" THEN Null
          ELSE [type |-> "access", baseName |-> baseAccess.baseName,
                segments |-> Append(baseAccess.segments, segment)]
  ELSE Null

extractPropertyAccess(expression) ==
  buildPropertyAccess(unwrapExpression(expression))

LowerCase ==
  {"a", "b", "c", "d", "e", "f", "g", "h", "i", "j", "k", "l", "m",
   "n", "o", "p", "q", "r", "s", "t", "u", "v", "w", "x", "y", "z"}

\* /^[a-zA-Z_$][a-zA-Z0-9_$]*$/.test(name)
isIdentifierName(name) ==
  /\ name # <<>>
  /\ Head(name) \in LowerCase \cup UpperCase \cup {"_", "$"}
  /\ \A k \in DOMAIN name :
       name[k] \in LowerCase \cup UpperCase \cup {"_", "$"}
                     \cup {Digits[d] : d \in DOMAIN Digits}

\* propertyAccess.ts: the access as JavaScript would write it
RECURSIVE buildAccessorString(_, _)
buildAccessorString(baseName, segments) ==
  IF segments = <<>> THEN baseName
  ELSE buildAccessorString(
         baseName \o
           (IF Head(segments).kind = "property"
            THEN IF isIdentifierName(Head(segments).name)
                 THEN <<".">> \o Head(segments).name
                 ELSE <<"[", "\"">> \o Head(segments).name \o <<"\"", "]">>
            ELSE IF Head(segments).kind = "index"
            THEN <<"[">> \o toString(Head(segments).index) \o <<"]">>
            ELSE <<"[">> \o Head(segments).variable \o <<"]">>),
         Tail(segments))

\* propertyAccess.ts
buildLoopAccessorSegments(segments, indexParamName) ==
  <<VariableIndexSegment(indexParamName)>> \o segments

\* propertyAccess.ts: the descriptor, with the accessor as its id where a base
\* name is given
propertyAccess_formatLocation(filename, loc, baseName, segments) ==
  stringify(
    IF baseName # <<>>
    THEN Append(locationDescriptor(filename, loc),
                << <<"i", "d">>, buildAccessorString(baseName, segments) >>)
    ELSE locationDescriptor(filename, loc))

\* propertyAccess.ts, the loop over the segments of getLocationForSegments: a
\* variable index ends the walk at the array it indexes
RECURSIVE propertyAccess_walkSegments(_, _)
propertyAccess_walkSegments(currentNode, segments) ==
  IF segments = <<>> THEN currentNode
  ELSE IF Head(segments).kind = "property"
  THEN IF currentNode.type # "ObjectExpression" THEN Null
       ELSE Bind(matchedProperty(currentNode.properties, Head(segments).name, TRUE),
              LAMBDA matched :
                IF matched.type = "null" THEN Null
                ELSE propertyAccess_walkSegments(matched.value, Tail(segments)))
  ELSE IF Head(segments).kind = "index"
  THEN IF currentNode.type # "ArrayExpression" THEN Null
       ELSE Bind(elementAt(currentNode, Head(segments).index),
              LAMBDA arrayElement :
                IF ~isExpressionNode(arrayElement) THEN Null
                ELSE propertyAccess_walkSegments(arrayElement, Tail(segments)))
  ELSE IF currentNode.type # "ArrayExpression" THEN Null
       ELSE currentNode

propertyAccess_getLocationForSegments(filename, element, segments, baseName) ==
  IF element.type = "null" THEN Null
  ELSE IF element.type = "SpreadElement" THEN Null
  ELSE Bind(propertyAccess_walkSegments(element, segments),
         LAMBDA currentNode :
           IF currentNode.type = "null" THEN Null
           ELSE LET loc == IF locOf(currentNode).type # "null"
                           THEN locOf(currentNode) ELSE locOf(element)
                IN IF loc.type = "null" THEN Null
                   ELSE JsString(propertyAccess_formatLocation(
                                   filename, loc, baseName, segments)))

\* propertyAccess.ts
buildLocationAttributeValue(filename, elementPaths, segments, indexExpression, baseName) ==
  LET locations == [k \in DOMAIN elementPaths |->
                      propertyAccess_getLocationForSegments(
                        filename, elementPaths[k], segments, baseName)]
      availableLocations == available(locations)
  IN IF Len(availableLocations) = 0 THEN Null
     ELSE IF indexExpression.type = "null" \/ Len(elementPaths) = 1
     THEN availableLocations[1]
     ELSE indexedLocations(locations, indexExpression)

\* index.tsx, annotateDynamicChildrenForElement and annotateImgSource of the
\* loop module: the segments handed to buildLocationAttributeValue
loopAccessorSegments(segments, indexParamName) ==
  IF indexParamName # <<>>
  THEN buildLoopAccessorSegments(segments, indexParamName)
  ELSE segments

\* ------------------------------------------------------------------------
\* The loop module by source location: loopMetadata.ts, and its revision over
\* propertyAccess.ts (index.tsx, from attachLoopMetadata on)

\* unwrapExpressionPath: a path that is an expression is returned as it is,
\* and the wrappers the later branches name are expressions
RECURSIVE unwrapExpressionPath(_)
unwrapExpressionPath(node) ==
  IF isExpressionNode(node) THEN node
  ELSE IF node.type = "TSParameterProperty"
  THEN unwrapExpressionPath(node.parameter)
  ELSE Null

\* scope.getBinding(name) over the declarations of the component function:
\* the elements of the array literal the name is initialized to
locatedCollectionSourceInfo(sourceIdentifier, scope) ==
  LET found == {i \in DOMAIN scope : scope[i].name = sourceIdentifier.name}
      binding == scope[CHOOSE i \in found : TRUE]
      unwrappedInit == unwrapExpressionPath(binding.init)
  IN IF found = {} THEN Null
     ELSE IF binding.kind = "module" THEN Null
     ELSE IF ~binding.isVariableDeclarator THEN Null
     ELSE IF binding.init.type = "null" THEN Null
     ELSE IF unwrappedInit.type # "ArrayExpression" THEN Null
     ELSE [type |-> "CollectionSourceInfo",
           sourceName |-> sourceIdentifier.name,
           elementPaths |-> unwrappedInit.elements]

\* LoopContext of either revision; module names the revision
LocatedLoopContext(module, filename, collectionInfo, itemParamNames, indexExpression, indexParamName) ==
  [module |-> module, filename |-> filename, collectionInfo |-> collectionInfo,
   itemParamNames |-> itemParamNames, indexExpression |-> indexExpression,
   indexParamName |-> indexParamName]

\* loopMetadata.ts, getDynamicChildInfo: the first expression child that
\* references an item name decides
RECURSIVE loopMetadata_getDynamicChildInfo(_, _)
loopMetadata_getDynamicChildInfo(childPaths, itemParamNames) ==
  IF childPaths = <<>> THEN Null
  ELSE LET child == Head(childPaths)
       IN IF child.type # "JSXExpressionContainer"
               \/ child.expression.type = "JSXEmptyExpression"
               \/ ~expressionReferencesNames(child.expression, itemParamNames)
          THEN loopMetadata_getDynamicChildInfo(Tail(childPaths), itemParamNames)
          ELSE extractPropertySegments(child.expression, itemParamNames)

\* index.tsx, getDynamicChildInfo: the accesses that start at an item name,
\* in child order
RECURSIVE itemAccesses(_, _)
itemAccesses(childPaths, itemParamNames) ==
  IF childPaths = <<>> THEN <<>>
  ELSE LET child == Head(childPaths)
           access == extractPropertyAccess(child.expression)
       IN (IF child.type # "JSXExpressionContainer"
                \/ child.expression.type = "JSXEmptyExpression"
           THEN <<>>
           ELSE IF access.type = "null" THEN <<>>
           ELSE IF access.baseName \notin itemParamNames THEN <<>>
           ELSE <<access>>) \o itemAccesses(Tail(childPaths), itemParamNames)

\* exactly one such access, or null
loopModule_getDynamicChildInfo(childPaths, itemParamNames) ==
  Bind(itemAccesses(childPaths, itemParamNames),
    LAMBDA accesses :
      IF Len(accesses) = 1
      THEN [type |-> "segments", segments |-> accesses[1].segments]
      ELSE Null)

\* the value either revision builds for the segments its getDynamicChildInfo
\* or its scan of the src attribute found
locatedSourceValue(loopContext, found) ==
  IF loopContext.module = "loopMetadata.ts"
  THEN buildCollectionLocationAttributeValue(
         loopContext.filename, loopContext.collectionInfo.elementPaths,
         loopContext.indexExpression, found.segments)
  ELSE buildLocationAttributeValue(
         loopContext.filename, loopContext.collectionInfo.elementPaths,
         loopAccessorSegments(found.segments, loopContext.indexParamName),
         loopContext.indexExpression, loopContext.collectionInfo.sourceName)

\* annotateDynamicChildrenForElement of either revision
locatedDynamicChildren(element, loopContext) ==
  IF isReactComponent(element) THEN element
  ELSE IF loopContext.collectionInfo.type = "null" THEN element
  ELSE Bind(IF loopContext.module = "loopMetadata.ts"
            THEN loopMetadata_getDynamicChildInfo(
                   element.children, loopContext.itemParamNames)
            ELSE loopModule_getDynamicChildInfo(
                   element.children, loopContext.itemParamNames),
         LAMBDA dynamicChildInfo :
           IF dynamicChildInfo.type = "null" THEN element
           ELSE Bind(locatedSourceValue(loopContext, dynamicChildInfo),
                  LAMBDA value :
                    IF value.type = "null" THEN element
                    ELSE setOrUpdateAttribute(
                           element, "data-children-source", value)))

\* the segments of the expression of a src attribute
srcSegments(loopContext, embedded) ==
  IF loopContext.module = "loopMetadata.ts"
  THEN IF expressionReferencesNames(embedded, loopContext.itemParamNames)
       THEN extractPropertySegments(embedded, loopContext.itemParamNames)
       ELSE Null
  ELSE Bind(extractPropertyAccess(embedded),
         LAMBDA access :
           IF access.type = "null" THEN Null
           ELSE IF access.baseName \notin loopContext.itemParamNames THEN Null
           ELSE [type |-> "segments", segments |-> access.segments])

\* annotateImgSource of either revision: every src attribute that holds an
\* access of an item writes data-img-source, in attribute order
RECURSIVE locatedImgSourceFrom(_, _, _)
locatedImgSourceFrom(element, k, loopContext) ==
  IF k > Len(element.attributes) THEN element
  ELSE LET attr == element.attributes[k]
           use == /\ attr.type = "JSXAttribute"
                  /\ attr.name = "src"
                  /\ attr.value.type = "JSXExpressionContainer"
                  /\ attr.value.expression.type # "JSXEmptyExpression"
           found == srcSegments(loopContext, attr.value.expression)
           value == locatedSourceValue(loopContext, found)
       IN IF use /\ found.type # "null" /\ value.type # "null"
          THEN locatedImgSourceFrom(
                 setOrUpdateAttribute(element, "data-img-source", value),
                 k + 1, loopContext)
          ELSE locatedImgSourceFrom(element, k + 1, loopContext)

locatedImgSource(element, loopContext) ==
  IF loopContext.collectionInfo.type = "null" THEN element
  ELSE IF element.name # <<"i", "m", "g">> THEN element
  ELSE locatedImgSourceFrom(element, 1, loopContext)

\* annotateElement of applyLoopAnnotations, and the traversal of the
\* JSXElements below the element; key is the node, rootKey the element
\* applyLoopAnnotations was called for
RECURSIVE locatedLoopAnnotations(_, _, _, _, _)
locatedLoopAnnotations(node, key, rootKey, loopContext, processed) ==
  IF node.type # "JSXElement" THEN node
  ELSE Bind(IF (key \in processed /\ key # rootKey)
                 \/ isReactComponent(node)
                 \/ ~elementReferencesParamNames(node, loopContext.itemParamNames)
            THEN node
            ELSE locatedImgSource(locatedDynamicChildren(node, loopContext),
                                  loopContext),
         LAMBDA annotatedNode :
           [annotatedNode EXCEPT
              !.children =
                [k \in DOMAIN annotatedNode.children |->
                   locatedLoopAnnotations(annotatedNode.children[k], Append(key, k),
                                          rootKey, loopContext, processed)]])

\* processLoopElement of either revision
locatedLoopElement(element, key, context, loopContext, processed) ==
  IF key \in processed
  THEN [element |-> element, context |-> context, processed |-> processed]
  ELSE IF ~elementReferencesParamNames(element, loopContext.itemParamNames)
  THEN [element |-> element, context |-> context, processed |-> processed]
  ELSE Bind(addRenderedByAttributes(element, loopContext.filename, context, Null),
         LAMBDA a :
       Bind(processJSXChildren(a.openingElement, loopContext.filename, FALSE,
                               a.context),
         LAMBDA p :
           [element |-> locatedLoopAnnotations(p.jsxElement, key, key, loopContext,
                                               processed \cup {key}),
            context |-> p.context,
            processed |-> processed \cup {key}]))

\* getIndexParamName
getIndexParamName(callback) ==
  IF Len(callback.params) < 2 THEN <<>>
  ELSE LET indexParam == callback.params[2]
       IN IF indexParam.type = "Identifier" THEN indexParam.name
          ELSE IF indexParam.type = "AssignmentPattern"
                    /\ indexParam.left.type = "Identifier"
          THEN indexParam.left.name
          ELSE <<>>

\* the loop over the returned elements
RECURSIVE locatedLoopElements(_, _, _, _, _, _)
locatedLoopElements(callback, places, key, context, loopContext, processed) ==
  IF places = <<>>
  THEN [callback |-> callback, context |-> context, processed |-> processed]
  ELSE Bind(locatedLoopElement(returnedElementAt(callback, Head(places)),
                               key \o Head(places), context, loopContext, processed),
         LAMBDA r :
           locatedLoopElements(
             withReturnedElementAt(callback, Head(places), r.element),
             Tail(places), key, r.context, loopContext, r.processed))

\* a faulty variant of locatedCollectionRenderingCall: neither revision
\* returns where the source is not a literal array
locatedCollectionRenderingCall_whateverTheSource(module, call, key, filename, context, scope, processed) ==
  IF \/ filename = <<>>
     \/ call.callee.type # "MemberExpression"
     \/ call.callee.property.type # "Identifier"
     \/ call.callee.property.name # <<"m", "a", "p">>
     \/ call.callee.object.type # "Identifier"
     \/ Len(call.arguments) = 0
     \/ ~IsFunction(call.arguments[1])
     \/ getReturnedJSXElements(call.arguments[1]) = <<>>
     \/ itemParamNamesOf(call.arguments[1]) = {}
  THEN [call |-> call, context |-> context, processed |-> processed]
  ELSE Bind(locatedLoopElements(
              call.arguments[1], getReturnedJSXElements(call.arguments[1]),
              key, context,
              LocatedLoopContext(
                module, filename,
                locatedCollectionSourceInfo(call.callee.object, scope),
                itemParamNamesOf(call.arguments[1]),
                getIndexParamExpression(call.arguments[1]),
                getIndexParamName(call.arguments[1])),
              processed),
         LAMBDA r : [call |-> [call EXCEPT !.arguments[1] = r.callback],
                     context |-> r.context, processed |-> r.processed])

\* processCollectionRenderingCall of either revision, for a call met inside
\* a JSX expression slot: loopMetadata.ts returns where the source is not a
\* literal array of the scope, its revision goes on without the collection
locatedCollectionRenderingCall(module, call, key, filename, context, scope, processed) ==
  IF \/ filename = <<>>
     \/ call.callee.type # "MemberExpression"
     \/ call.callee.property.type # "Identifier"
     \/ call.callee.property.name # <<"m", "a", "p">>
     \/ call.callee.object.type # "Identifier"
  THEN [call |-> call, context |-> context, processed |-> processed]
  ELSE Bind(locatedCollectionSourceInfo(call.callee.object, scope),
         LAMBDA collectionInfo :
           IF \/ module = "loopMetadata.ts" /\ collectionInfo.type = "null"
              \/ Len(call.arguments) = 0
              \/ ~IsFunction(call.arguments[1])
              \/ getReturnedJSXElements(call.arguments[1]) = <<>>
              \/ itemParamNamesOf(call.arguments[1]) = {}
           THEN [call |-> call, context |-> context, processed |-> processed]
           ELSE Bind(locatedLoopElements(
                       call.arguments[1], getReturnedJSXElements(call.arguments[1]),
                       key, context,
                       LocatedLoopContext(
                         module, filename, collectionInfo,
                         itemParamNamesOf(call.arguments[1]),
                         getIndexParamExpression(call.arguments[1]),
                         getIndexParamName(call.arguments[1])),
                       processed),
                  LAMBDA r : [call |-> [call EXCEPT !.arguments[1] = r.callback],
                              context |-> r.context, processed |-> r.processed]))

\* ------------------------------------------------------------------------
\* Inputs

div == <<"d", "i", "v">>
span == <<"s", "p", "a", "n">>
img == <<"i", "m", "g">>
Card == <<"C", "a", "r", "d">>
map == <<"m", "a", "p">>
children == <<"c", "h", "i", "l", "d", "r", "e", "n">>
title == <<"t", "i", "t", "l", "e">>
item == <<"i", "t", "e", "m">>
index == <<"i", "n", "d", "e", "x">>
items == <<"i", "t", "e", "m", "s">>
useItems == <<"u", "s", "e", "I", "t", "e", "m", "s">>
FileA == <<"s", "r", "c", "/", "A", ".", "j", "s">>
FileB == <<"s", "r", "c", "/", "B", ".", "j", "s">>
Hero == <<"H", "e", "r", "o">>
Panel == <<"P", "a", "n", "e", "l">>
dup == <<"d", "u", "p">>
old == <<"o", "l", "d">>

\* options.filename: a path, or none (options.filename || "")
Filenames == {FileA, FileB, <<>>}

\* options.skipFiles: none, or an entry contained in src/A.js and an entry
\* equal to src/B.js
SkipLists ==
  { <<>>, << <<"A", ".", "j", "s">>, FileB >> }

\* the editor-id attributes an author may have left on an element
ExistingIds ==
  { <<>>,
    << JSXAttribute("data-editor-id", StringLiteral(dup)) >>,
    << JSXAttribute("data-editor-id", StringLiteral(<<>>)) >>,
    << JSXAttribute("data-editor-id", StringLiteral(<<" ", " ">>)) >>,
    << JSXAttribute("data-editor-id", JSXExpressionContainer(Identifier(title))) >>,
    << JSXAttribute("data-editor-id", Null) >> }

Hi == JSXText(<<"H", "i">>)
Blank == JSXText(<<"\n", " ", " ">>)

Leaves ==
  { Hi, Blank,
    JSXExpressionContainer(Identifier(children)),
    JSXExpressionContainer(Identifier(title)),
    JSXExpressionContainer(MemberExpression(Identifier(item), Identifier(title), FALSE)) }

\* the children of the root of a component without loops
Children ==
  Leaves
  \cup { JSXElement(tag, id, inner) :
           tag \in {span, Card}, id \in ExistingIds, inner \in {<<>>, <<Hi>>} }
  \cup { JSXElement(tag, <<>>, <<inner>>) :
           tag \in {span, Card},
           inner \in { Blank,
                       JSXExpressionContainer(Identifier(children)),
                       JSXExpressionContainer(Identifier(title)),
                       JSXElement(span, <<>>, <<Hi>>),
                       JSXElement(Card, <<>>, <<Hi>>),
                       JSXElement(Card, <<>>,
                                  <<JSXExpressionContainer(Identifier(children))>>) } }

LastChildren ==
  { <<>>,
    << JSXElement(span, << JSXAttribute("data-editor-id", StringLiteral(dup)) >>, <<Hi>>) >>,
    << JSXExpressionContainer(Identifier(children)) >>,
    << Hi, Blank >> }

\* what the root of a component may already carry
RootAttributes ==
  { <<>>,
    << JSXAttribute("data-component-file", StringLiteral(old)),
       JSXAttribute("data-editor-id", StringLiteral(dup)),
       JSXAttribute("data-component-name", StringLiteral(old)) >>,
    << JSXAttribute("data-rendered-by", StringLiteral(old)),
       JSXAttribute("data-editor-id", StringLiteral(<<" ">>)) >>,
    << JSXAttribute("data-editor-id", StringLiteral(dup)),
       JSXAttribute("data-editor-id", StringLiteral(old)) >> }

PlainRoots ==
  { JSXElement(tag, attributes, <<>>) : tag \in {div, Card}, attributes \in RootAttributes }
  \cup { JSXElement(tag, attributes, <<first>> \o last) :
           tag \in {div, Card}, attributes \in RootAttributes,
           first \in Children, last \in LastChildren }

FragmentRoots ==
  { JSXFragment(<< JSXElement(div, first, <<Hi>>), Blank, JSXElement(tag, second, <<Hi>>) >>) :
      first \in { <<>>, << JSXAttribute("data-editor-id", StringLiteral(dup)) >> },
      second \in { <<>>, << JSXAttribute("data-editor-id", StringLiteral(dup)) >> },
      tag \in {span, Card} }

\* the callback of items.map: its parameters, and the element it returns
LoopBodies ==
  { JSXElement(tag, key, <<inner>>) :
      tag \in {div, Card},
      key \in { <<>>,
                << JSXAttribute("key", JSXExpressionContainer(
                     MemberExpression(Identifier(item), Identifier(title), FALSE))) >> },
      inner \in { JSXExpressionContainer(
                    MemberExpression(Identifier(item), Identifier(title), FALSE)),
                  JSXElement(span, <<>>, << JSXExpressionContainer(
                    MemberExpression(Identifier(item), Identifier(title), FALSE)) >>),
                  JSXElement(span, <<>>, <<Hi>>),
                  JSXElement(Card, <<>>, <<Hi>>),
                  JSXElement(img, << JSXAttribute("src", JSXExpressionContainer(
                    MemberExpression(Identifier(item), Identifier(title), FALSE))) >>, <<>>),
                  JSXElement(Card, <<>>, << JSXExpressionContainer(
                    MemberExpression(Identifier(item), Identifier(title), FALSE)) >>) } }

LoopRoots ==
  { JSXElement(div, <<>>,
      before \o << JSXExpressionContainer(
        CallExpression(MemberExpression(Identifier(items), Identifier(map), FALSE),
                       << ArrowFunctionExpression(params, body) >>)) >>) :
      before \in { <<>>, << JSXElement(span, <<>>, <<Hi>>) >> },
      params \in { << Identifier(item) >>, << Identifier(item), Identifier(index) >> },
      body \in LoopBodies }

\* const items = [ ... ] and const items = useItems()
Scopes ==
  { << Binding(items, "const", TRUE, ArrayExpression(<<>>)) >>,
    << Binding(items, "const", TRUE,
               CallExpression(Identifier(useItems), <<>>)) >> }

\* return React.createElement("div", props, "Hi")
FactoryRoots ==
  { CallExpression(
      MemberExpression(Identifier(<<"R", "e", "a", "c", "t">>),
                       Identifier(<<"c", "r", "e", "a", "t", "e", "E", "l", "e", "m", "e", "n", "t">>),
                       FALSE),
      << StringLiteral(div), props, StringLiteral(<<"H", "i">>) >>) :
      props \in { Null,
                  ObjectExpression(<< ObjectProperty(StringLiteral(title),
                                                     StringLiteral(old)) >>) } }

Components ==
  { Component("FunctionDeclaration", Hero, <<root>>, <<>>) :
      root \in PlainRoots \cup FragmentRoots \cup FactoryRoots }
  \cup { Component("ArrowFunctionExpression", Hero, <<root>>, scope) :
           root \in LoopRoots, scope \in Scopes }

\* the components of the files that define several, under distinct names
SiblingComponents ==
  { Component("FunctionDeclaration", id, << JSXElement(div, <<>>, inner) >>, <<>>) :
      id \in {Hero, Panel, Card},
      inner \in { <<>>, << JSXElement(span, <<>>, <<Hi>>) >>,
                  << JSXElement(Card, <<>>, <<Hi>>) >> } }

image == <<"i", "m", "a", "g", "e">>
more == <<"m", "o", "r", "e">>

\* a string literal "a" that starts at the column of the line
LiteralText(line, column) ==
  located(StringLiteral(<<"a">>), SourceLocation(line, column, line, column + 3))

\* the elements a literal array is written with, one per line:
\*   { title: "a", image: "a" }   { title: "a" }   ["a"]   ...more   and a hole
ElementShapes == {"both", "title", "row", "spread", "hole"}

LiteralElement(shape, line) ==
  CASE shape = "both" ->
         located(ObjectExpression(
                   << ObjectProperty(Identifier(title), LiteralText(line, 11)),
                      ObjectProperty(Identifier(image), LiteralText(line, 23)) >>),
                 SourceLocation(line, 2, line, 28))
    [] shape = "title" ->
         located(ObjectExpression(
                   << ObjectProperty(Identifier(title), LiteralText(line, 11)) >>),
                 SourceLocation(line, 2, line, 16))
    [] shape = "row" ->
         located(ArrayExpression(<< LiteralText(line, 3) >>),
                 SourceLocation(line, 2, line, 7))
    [] shape = "spread" ->
         located(SpreadElement(Identifier(more)), SourceLocation(line, 2, line, 9))
    [] OTHER -> Null

MaxElements == 2

\* the elements of const items = [ ... ], the k-th of them on line k + 1
Collections ==
  { [k \in 1..n |-> LiteralElement(shapes[k], k + 1)] :
      n \in 1..MaxElements, shapes \in [1..MaxElements -> ElementShapes] }

\* what the returned element embeds: item, item.title, item.image, item[0]
\* and item[index]
ItemExpressions ==
  { Identifier(item),
    MemberExpression(Identifier(item), Identifier(title), FALSE),
    MemberExpression(Identifier(item), Identifier(image), FALSE),
    MemberExpression(Identifier(item), NumericLiteral(0), TRUE),
    MemberExpression(Identifier(item), Identifier(index), TRUE) }

\* const items = [ ... ], const items = useItems(), import items from ...,
\* and items a parameter of the component function
LoopScopes ==
  { << Binding(items, "const", TRUE, ArrayExpression(elements)) >> :
      elements \in Collections }
    \cup { << Binding(items, "const", TRUE,
                      CallExpression(Identifier(useItems), <<>>)) >>,
           << Binding(items, "module", FALSE, Null) >>,
           << Binding(items, "param", FALSE, Null) >> }

\* <span>{expression}</span> and <img src={expression} />
LoopElements ==
  { JSXElement(span, <<>>, << JSXExpressionContainer(e) >>) :
      e \in ItemExpressions }
    \cup { JSXElement(img, << JSXAttribute("src", JSXExpressionContainer(e)) >>, <<>>) :
             e \in ItemExpressions }

\* items.map((item) => element) and items.map((item, index) => element)
LoopCalls ==
  { CallExpression(
      MemberExpression(Identifier(items), Identifier(map), FALSE),
      << ArrowFunctionExpression(params, body) >>) :
      params \in { << Identifier(item) >>, << Identifier(item), Identifier(index) >> },
      body \in LoopElements }

pTag == <<"p">>
Yo == JSXText(<<"Y", "o">>)

\* the children of the two components that are compiled side by side:
\* <span>, <p> and <Card> around a text, and a <span> with a title or with
\* an editor-id of its own
\* an id an author has copied from the output of an earlier compilation of
\* src/A.js: the one synthesized for the first element of a component
copied == md5Hex12("element[0]@src/A.js")

PairChildren ==
  { JSXElement(tag, <<>>, <<text>>) : tag \in {span, pTag, Card}, text \in {Hi, Yo, Blank} }
  \cup { JSXElement(span, << JSXAttribute(name, StringLiteral(value)) >>, <<Hi>>) :
           name \in {"title", "data-editor-id"}, value \in {old, dup} }
  \cup { JSXElement(span, << JSXAttribute("data-editor-id", StringLiteral(copied)) >>,
                    <<Hi>>) }

PairRoots ==
  { JSXElement(tag, <<>>, <<first, last>>) :
      tag \in {div, span}, first \in PairChildren,
      last \in { JSXElement(span, <<>>, <<Hi>>), JSXElement(pTag, <<>>, <<Hi>>),
                 JSXElement(span, << JSXAttribute("data-editor-id", StringLiteral(dup)) >>,
                            <<Hi>>) } }

\* function Hero() { return left } and function Panel() { return right }
PairPrograms ==
  { << Component("FunctionDeclaration", Hero, <<left>>, <<>>),
       Component("FunctionDeclaration", Panel, <<right>>, <<>>) >> :
      left \in PairRoots, right \in PairRoots }

\* what a callback nested in a component returns
NestedElements ==
  { JSXElement(span, <<>>, << JSXExpressionContainer(
      MemberExpression(Identifier(item), Identifier(title), FALSE)) >>),
    JSXElement(span, <<>>, <<Hi>>),
    JSXElement(span, << JSXAttribute("data-editor-id", StringLiteral(dup)) >>, <<Hi>>),
    JSXElement(Card, <<>>, <<Hi>>),
    JSXFragment(<< JSXElement(span, <<>>, <<Hi>>), Blank,
                   JSXElement(span, <<>>, << JSXExpressionContainer(
                     MemberExpression(Identifier(item), Identifier(title), FALSE)) >>) >>) }

\* (item) => element and (item) => { return element }
NestedCallbacks ==
  { ArrowFunctionExpression(<< Identifier(item) >>, body) :
      body \in NestedElements
                 \cup { BlockStatement(<< ReturnStatement(element) >>) :
                          element \in NestedElements } }

\* <div>{items.map(callback)}</div>, behind a <span> or on its own
NestedRoots ==
  { JSXElement(div, <<>>,
      before \o << JSXExpressionContainer(
        CallExpression(MemberExpression(Identifier(items), Identifier(map), FALSE),
                       << callback >>)) >>) :
      before \in { <<>>, << JSXElement(span, <<>>, <<Hi>>) >> },
      callback \in NestedCallbacks }

\* function Hero() { return root }, const Hero = function () { return root }
\* and const Hero = () => root
NestedPrograms ==
  { << Component(kind, Hero, <<root>>, declared) >> :
      kind \in {"FunctionDeclaration", "FunctionExpression", "ArrowFunctionExpression"},
      root \in NestedRoots, declared \in Scopes }

\* React.createElement(type, props, ...children)
createElement(elementType, props, arguments) ==
  CallExpression(
    MemberExpression(Identifier(<<"R", "e", "a", "c", "t">>),
                     Identifier(<<"c", "r", "e", "a", "t", "e", "E", "l", "e", "m", "e", "n", "t">>),
                     FALSE),
    << elementType, props >> \o arguments)

\* title: "old", "data-editor-id": "dup", title: title and ...more
FactoryProperties ==
  { ObjectProperty(Identifier(title), StringLiteral(old)),
    ObjectProperty(StringLiteral(<<"d", "a", "t", "a", "-", "e", "d", "i", "t", "o", "r", "-", "i", "d">>),
                   StringLiteral(dup)),
    ObjectProperty(Identifier(title), Identifier(title)),
    SpreadElement(Identifier(more)) }

\* null, the identifier props, and the object literals of up to two properties
FactoryProps ==
  { Null, Identifier(<<"p", "r", "o", "p", "s">>), ObjectExpression(<<>>) }
  \cup { ObjectExpression(<<first>>) : first \in FactoryProperties }
  \cup { ObjectExpression(<<first, second>>) :
           first \in FactoryProperties, second \in FactoryProperties }

\* "Hi", React.createElement("span", null, "Hi"), React.createElement(Card, null, "Hi"),
\* title, useItems() and ...more
FactoryArguments ==
  { StringLiteral(<<"H", "i">>),
    createElement(StringLiteral(span), Null, << StringLiteral(<<"H", "i">>) >>),
    createElement(Identifier(Card), Null, << StringLiteral(<<"H", "i">>) >>),
    Identifier(title),
    CallExpression(Identifier(useItems), <<>>),
    SpreadElement(Identifier(more)) }

FactoryCalls ==
  { createElement(StringLiteral(div), props, arguments) :
      props \in FactoryProps,
      arguments \in { <<>> } \cup { <<first>> : first \in FactoryArguments }
                      \cup { <<first, second>> : first \in FactoryArguments,
                                                 second \in FactoryArguments } }

\* function Hero() { return call } and const Hero = () => call
FactoryPrograms ==
  { << Component(kind, Hero, <<call>>, <<>>) >> :
      kind \in {"FunctionDeclaration", "ArrowFunctionExpression"},
      call \in FactoryCalls }

\* the links of a member access: .title, [index], .#title and ?.title, with
\* ["title"] or with [0]
AccessLinks(literal) ==
  { [property |-> Identifier(title), computed |-> FALSE, optional |-> FALSE],
    [property |-> Identifier(index), computed |-> TRUE, optional |-> FALSE],
    [property |-> literal, computed |-> TRUE, optional |-> FALSE],
    [property |-> [type |-> "PrivateName", id |-> Identifier(title)],
     computed |-> FALSE, optional |-> FALSE],
    [property |-> Identifier(title), computed |-> FALSE, optional |-> TRUE] }

linked(object, link) ==
  [type |-> IF link.optional THEN "OptionalMemberExpression" ELSE "MemberExpression",
   object |-> object, property |-> link.property, computed |-> link.computed]

MaxLinks == 2

\* item, this, useItems() and (item), and the chains of links they start
RECURSIVE Accesses(_, _)
Accesses(n, literal) ==
  IF n = 0
  THEN { Identifier(item), [type |-> "ThisExpression"],
         CallExpression(Identifier(useItems), <<>>),
         [type |-> "ParenthesizedExpression", expression |-> Identifier(item)] }
  ELSE Accesses(n - 1, literal)
         \cup { linked(object, link) :
                  object \in Accesses(n - 1, literal), link \in AccessLinks(literal) }

\* the accesses whose literal keys are written as literal, bare and in
\* parentheses
AccessExpressions(literal) ==
  Accesses(MaxLinks, literal)
    \cup { [type |-> "ParenthesizedExpression", expression |-> e] :
             e \in Accesses(1, literal) }

MaxComponents == 2
MaxRuns == 2

Programs ==
  { <<c>> : c \in Components }
  \cup UNION { { p \in [1..n -> SiblingComponents] :
                   \A i, j \in 1..n : i # j => p[i].id # p[j].id } :
                 n \in 2..MaxComponents }

\* ------------------------------------------------------------------------
\* The plugin run over files, one component definition at a time

\* String.prototype.includes
includes(s, searchString) ==
  \E i \in 0..(Len(s) - Len(searchString)) :
    SubSeq(s, i + 1, i + Len(searchString)) = searchString

\* skipFiles.some((skipFile) => filename === skipFile || filename.includes(skipFile))
isSkipped_whenEqual(name, skipList) ==
  \E k \in DOMAIN skipList : name = skipList[k]

isSkipped(name, skipList) ==
  \E k \in DOMAIN skipList : name = skipList[k] \/ includes(name, skipList[k])

VARIABLES
  filename,               \* options.filename of the run
  skipFiles,              \* options.skipFiles of the process
  program,                \* the component definitions of the file being transformed
  visited,                \* how many of them the visitor has processed
  contexts,               \* the context each processed component ended with
  processedLoopElements,  \* the module's WeakSet
  run,                    \* the runs started so far in this process
  input,                  \* the file as this run received it
  history,                \* the finished runs: input, filename, output, contexts
  scope,                  \* the declarations of a component function that loops
  loopCall,               \* the items.map(callback) call its returned tree embeds
  annotatedBy,            \* the revision of the loop module that has met the call
  given,                  \* what a function of the plugin is called with on its own
  returned                \* what that call returned, Pending before it

loopVars == <<scope, loopCall, annotatedBy>>

pureVars == <<given, returned>>

vars == <<filename, skipFiles, program, visited, contexts,
          processedLoopElements, run, input, history, loopVars, pureVars>>

Init ==
  /\ filename \in Filenames
  /\ skipFiles \in SkipLists
  /\ program \in Programs
  /\ visited = 0
  /\ contexts = <<>>
  /\ processedLoopElements = {}
  /\ run = 1
  /\ input = program
  /\ history = <<>>
  /\ scope = <<>>
  /\ loopCall = Null
  /\ annotatedBy = "none"
  /\ given = Null
  /\ returned = Null

\* a faulty variant of VisitComponent: the nodes are named by their place
\* alone, so that a node of a later run passes for the node an earlier run
\* put into processedLoopElements
VisitComponent_sharedNodes ==
  /\ ~isSkipped(filename, skipFiles)
  /\ visited < Len(program)
  /\ \E r \in { processComponent(program[visited + 1], <<1, visited + 1>>,
                                   program[visited + 1].id, filename,
                                   processedLoopElements) } :
       /\ program' = [program EXCEPT ![visited + 1] = r.component]
       /\ contexts' = Append(contexts, r.context)
       /\ processedLoopElements' = r.processed
  /\ visited' = visited + 1
  /\ UNCHANGED <<filename, skipFiles, run, input, history, loopVars, pureVars>>

\* the visitor reaches the next component definition of the file
VisitComponent ==
  /\ ~isSkipped(filename, skipFiles)
  /\ visited < Len(program)
  /\ \E r \in { processComponent(program[visited + 1], <<run, visited + 1>>,
                                   program[visited + 1].id, filename,
                                   processedLoopElements) } :
       /\ program' = [program EXCEPT ![visited + 1] = r.component]
       /\ contexts' = Append(contexts, r.context)
       /\ processedLoopElements' = r.processed
  /\ visited' = visited + 1
  /\ UNCHANGED <<filename, skipFiles, run, input, history, loopVars, pureVars>>

\* the traversal of the file is over: at once under the empty visitor of a
\* skipped file
Finished == isSkipped(filename, skipFiles) \/ visited = Len(program)

\* the output of the finished run is transformed again
Reannotate ==
  /\ Finished
  /\ run < MaxRuns
  /\ history' = Append(history, [input |-> input, filename |-> filename,
                                 output |-> program, contexts |-> contexts])
  /\ input' = program
  /\ visited' = 0
  /\ contexts' = <<>>
  /\ run' = run + 1
  /\ UNCHANGED <<filename, skipFiles, program, processedLoopElements, loopVars, pureVars>>

\* the input of the finished run is transformed once more, under the same
\* or under another file path
Recompile ==
  /\ Finished
  /\ run < MaxRuns
  /\ history' = Append(history, [input |-> input, filename |-> filename,
                                 output |-> program, contexts |-> contexts])
  /\ filename' \in Filenames
  /\ program' = input
  /\ visited' = 0
  /\ contexts' = <<>>
  /\ run' = run + 1
  /\ UNCHANGED <<skipFiles, input, processedLoopElements, loopVars, pureVars>>

Next == VisitComponent \/ Reannotate \/ Recompile

Spec == Init /\ [][Next]_vars


\* ------------------------------------------------------------------------
\* One loop of a component function, met by the loop module

LoopInit ==
  /\ filename \in Filenames \ {<<>>}
  /\ skipFiles = <<>>
  /\ program = <<>>
  /\ visited = 0
  /\ contexts = <<>>
  /\ processedLoopElements = {}
  /\ run = 1
  /\ history = <<>>
  /\ scope \in LoopScopes
  /\ loopCall \in LoopCalls
  /\ input = loopCall
  /\ annotatedBy = "none"
  /\ given = Null
  /\ returned = Null

\* attachLoopMetadata: the traversal reaches the call
attachLoopMetadata(module) ==
  /\ annotatedBy = "none"
  /\ \E r \in { locatedCollectionRenderingCall(
                   module, loopCall, <<1>>, filename,
                   IdGenerationContext(filename), scope, processedLoopElements) } :
       /\ loopCall' = r.call
       /\ processedLoopElements' = r.processed
  /\ annotatedBy' = module
  /\ UNCHANGED <<filename, skipFiles, program, visited, contexts, run, input,
                 history, scope, pureVars>>

\* the loop module of loopMetadata.ts annotates the file
AttachLoopMetadata == attachLoopMetadata("loopMetadata.ts")

\* its revision in index.tsx annotates the file
AttachLoopMetadataOverPropertyAccess == attachLoopMetadata("index.tsx")

LoopNext == AttachLoopMetadata \/ AttachLoopMetadataOverPropertyAccess

LoopSpec == LoopInit /\ [][LoopNext]_vars

\* ------------------------------------------------------------------------
\* Two components of one file, each annotated under a context of its own

PairInit ==
  /\ filename \in Filenames \ {<<>>}
  /\ skipFiles = <<>>
  /\ program \in PairPrograms
  /\ visited = 0
  /\ contexts = <<>>
  /\ processedLoopElements = {}
  /\ run = 1
  /\ input = program
  /\ history = <<>>
  /\ scope = <<>>
  /\ loopCall = Null
  /\ annotatedBy = "none"
  /\ given = Null
  /\ returned = Null

PairNext == VisitComponent

PairSpec == PairInit /\ [][PairNext]_vars

\* ------------------------------------------------------------------------
\* A component whose returned tree holds a function of its own

NestedInit ==
  /\ filename \in Filenames \ {<<>>}
  /\ skipFiles = <<>>
  /\ program \in NestedPrograms
  /\ visited = 0
  /\ contexts = <<>>
  /\ processedLoopElements = {}
  /\ run = 1
  /\ input = program
  /\ history = <<>>
  /\ scope = <<>>
  /\ loopCall = Null
  /\ annotatedBy = "none"
  /\ given = Null
  /\ returned = Null

NestedNext == VisitComponent

NestedSpec == NestedInit /\ [][NestedNext]_vars

\* ------------------------------------------------------------------------
\* A component that returns a factory call

FactoryInit ==
  /\ filename \in Filenames \ {<<>>}
  /\ skipFiles = <<>>
  /\ program \in FactoryPrograms
  /\ visited = 0
  /\ contexts = <<>>
  /\ processedLoopElements = {}
  /\ run = 1
  /\ input = program
  /\ history = <<>>
  /\ scope = <<>>
  /\ loopCall = Null
  /\ annotatedBy = "none"
  /\ given = Null
  /\ returned = Null

FactoryNext == VisitComponent

FactorySpec == FactoryInit /\ [][FactoryNext]_vars

\* ------------------------------------------------------------------------
\* The functions of propertyAccess.ts, called on their own

Pending == [type |-> "pending"]

AccessInit ==
  /\ filename = FileA
  /\ skipFiles = <<>>
  /\ program = <<>>
  /\ visited = 0
  /\ contexts = <<>>
  /\ processedLoopElements = {}
  /\ run = 1
  /\ input = <<>>
  /\ history = <<>>
  /\ scope = <<>>
  /\ loopCall = Null
  /\ annotatedBy = "none"
  /\ \/ given \in AccessExpressions(StringLiteral(title))
     \/ given \in AccessExpressions(NumericLiteral(0))
  /\ returned = Pending

\* extractPropertyAccess(expression)
ExtractPropertyAccess ==
  /\ returned = Pending
  /\ returned' = extractPropertyAccess(given)
  /\ UNCHANGED <<filename, skipFiles, program, visited, contexts,
                 processedLoopElements, run, input, history, loopVars, given>>

AccessNext == ExtractPropertyAccess

AccessSpec == AccessInit /\ [][AccessNext]_vars

\* ------------------------------------------------------------------------
\* getLocationForSegments of loopMetadata.ts and of propertyAccess.ts, called
\* on their own

\* the literals the walk starts from, each node with the loc it is parsed at:
\*   { title: "a", image: ["a", { title: "a" }] }
\*   ["a", , ...more, ["a"]]
\*   { ...more, "title": "a", title: ["a"] }
\*   ...more      "a"      and no node at all
WalkLiterals ==
  { located(ObjectExpression(
              << ObjectProperty(Identifier(title), LiteralText(2, 11)),
                 ObjectProperty(Identifier(image),
                   located(ArrayExpression(
                             << LiteralText(2, 24),
                                located(ObjectExpression(
                                          << ObjectProperty(Identifier(title),
                                                            LiteralText(2, 38)) >>),
                                        SourceLocation(2, 29, 2, 43)) >>),
                           SourceLocation(2, 23, 2, 44))) >>),
            SourceLocation(2, 2, 2, 46)),
    located(ArrayExpression(
              << LiteralText(3, 3),
                 Null,
                 located(SpreadElement(Identifier(more)),
                         SourceLocation(3, 10, 3, 17)),
                 located(ArrayExpression(<< LiteralText(3, 20) >>),
                         SourceLocation(3, 19, 3, 24)) >>),
            SourceLocation(3, 2, 3, 25)),
    located(ObjectExpression(
              << located(SpreadElement(Identifier(more)),
                         SourceLocation(4, 4, 4, 11)),
                 ObjectProperty(StringLiteral(title), LiteralText(4, 22)),
                 ObjectProperty(Identifier(title),
                   located(ArrayExpression(<< LiteralText(4, 35) >>),
                           SourceLocation(4, 34, 4, 39))) >>),
            SourceLocation(4, 2, 4, 41)),
    located(SpreadElement(Identifier(more)), SourceLocation(5, 2, 5, 9)),
    LiteralText(6, 2),
    Null }

MaxSegments == 3
MaxIndex == 3

\* a key of a member access: .title, .image and [0] .. [MaxIndex]
AccessKey(property, computed) ==
  [type |-> "key", property |-> property, computed |-> computed]

WalkKeys ==
  { AccessKey(Identifier(title), FALSE), AccessKey(Identifier(image), FALSE) }
    \cup { AccessKey(NumericLiteral(at), TRUE) : at \in 0..MaxIndex }

KeyLists ==
  UNION { [1..n -> WalkKeys] : n \in 0..MaxSegments }

WalkModules == {"loopMetadata", "propertyAccess"}

WalkInit ==
  /\ filename = FileA
  /\ skipFiles = <<>>
  /\ program = <<>>
  /\ visited = 0
  /\ contexts = <<>>
  /\ processedLoopElements = {}
  /\ run = 1
  /\ input = <<>>
  /\ history = <<>>
  /\ scope = <<>>
  /\ loopCall = Null
  /\ annotatedBy = "none"
  /\ given \in { [type |-> "walk", module |-> module, element |-> element,
                  keys |-> keys] :
                   module \in WalkModules, element \in WalkLiterals,
                   keys \in KeyLists }
  /\ returned = Pending

\* loopMetadata.ts: getLocationForSegments(filename, elementPath, segments) with
\* the segments getPropertyAccessSegment makes of the keys
GetLocationForSegments ==
  /\ returned = Pending
  /\ given.module = "loopMetadata"
  /\ returned' =
       getLocationForSegments(
         filename, given.element,
         [k \in DOMAIN given.keys |->
            getPropertyAccessSegment(given.keys[k].property, given.keys[k].computed)])
  /\ UNCHANGED <<filename, skipFiles, program, visited, contexts,
                 processedLoopElements, run, input, history, loopVars, given>>

\* propertyAccess.ts: getLocationForSegments(filename, elementPath, segments)
\* with the segments getPropertyAccessSegment makes of the keys
PropertyAccessGetLocationForSegments ==
  /\ returned = Pending
  /\ given.module = "propertyAccess"
  /\ returned' =
       propertyAccess_getLocationForSegments(
         filename, given.element,
         [k \in DOMAIN given.keys |->
            propertyAccess_getPropertyAccessSegment(
              given.keys[k].property, given.keys[k].computed)],
         <<>>)
  /\ UNCHANGED <<filename, skipFiles, program, visited, contexts,
                 processedLoopElements, run, input, history, loopVars, given>>

WalkNext ==
  \/ GetLocationForSegments
  \/ PropertyAccessGetLocationForSegments

WalkSpec == WalkInit /\ [][WalkNext]_vars

\* ------------------------------------------------------------------------
\* Variable metadata (attachVariableMetadata, over propertyAccess.ts)

\* a binding of the scope with the assignments that violate its constancy
VariableBinding(name, isVariableDeclarator, init, constantViolations) ==
  [type |-> "Binding", name |-> name, isVariableDeclarator |-> isVariableDeclarator,
   init |-> init, constantViolations |-> constantViolations]

\* expressionPath.scope.getBinding(name)
getBinding(bindings, name) ==
  LET found == { i \in DOMAIN bindings : bindings[i].name = name }
  IN IF found = {} THEN Null
     ELSE bindings[CHOOSE i \in found : \A j \in found : i <= j]

\* the one path of the unwrapped initializer of a variable declarator
getBindingInitializerPaths(binding) ==
  IF ~binding.isVariableDeclarator THEN Null
  ELSE Bind(unwrapExpressionPath(binding.init), LAMBDA unwrappedInit :
         IF unwrappedInit.type = "null" THEN Null
         ELSE [type |-> "paths", paths |-> <<unwrappedInit>>])

resolveBindingElementPaths(bindings, access) ==
  Bind(getBinding(bindings, access.baseName), LAMBDA binding :
    IF binding.type = "null" THEN Null
    ELSE IF binding.constantViolations > 0 THEN Null
    ELSE getBindingInitializerPaths(binding))

\* the value of the attribute for one embedded expression, null where the
\* loop over the children or the attributes continues
variableSourceValue(expression, inFile, bindings) ==
  IF expression.type = "JSXEmptyExpression" THEN Null
  ELSE Bind(extractPropertyAccess(expression), LAMBDA access :
         IF access.type = "null" THEN Null
         ELSE Bind(resolveBindingElementPaths(bindings, access),
                LAMBDA elementPaths :
                  IF elementPaths.type = "null" THEN Null
                  ELSE buildLocationAttributeValue(
                         inFile, elementPaths.paths, access.segments, Null,
                         access.baseName)))

RECURSIVE annotateChildrenSourceFrom(_, _, _, _)
annotateChildrenSourceFrom(element, k, inFile, bindings) ==
  IF k > Len(element.children) THEN element
  ELSE LET childPath == element.children[k]
           value == IF childPath.type # "JSXExpressionContainer" THEN Null
                    ELSE variableSourceValue(childPath.expression, inFile, bindings)
       IN IF value.type = "null"
          THEN annotateChildrenSourceFrom(element, k + 1, inFile, bindings)
          ELSE setOrUpdateAttribute(element, "data-children-source", value)

annotateChildrenSource(element, inFile, bindings) ==
  IF isReactComponent(element) THEN element
  ELSE annotateChildrenSourceFrom(element, 1, inFile, bindings)

RECURSIVE variables_annotateImgSourceFrom(_, _, _, _)
variables_annotateImgSourceFrom(element, k, inFile, bindings) ==
  IF k > Len(element.attributes) THEN element
  ELSE LET attr == element.attributes[k]
           sourceValue ==
             IF /\ attr.type = "JSXAttribute"
                /\ attr.name = "src"
                /\ attr.value.type = "JSXExpressionContainer"
             THEN variableSourceValue(attr.value.expression, inFile, bindings)
             ELSE Null
       IN IF sourceValue.type = "null"
          THEN variables_annotateImgSourceFrom(element, k + 1, inFile, bindings)
          ELSE setOrUpdateAttribute(element, "data-img-source", sourceValue)

variables_annotateImgSource(element, inFile, bindings) ==
  IF element.name # img THEN element
  ELSE variables_annotateImgSourceFrom(element, 1, inFile, bindings)

processElement(element, inFile, bindings) ==
  variables_annotateImgSource(
    annotateChildrenSource(element, inFile, bindings), inFile, bindings)

\* functionLikePath.traverse({ JSXElement }): every element of the function,
\* those of inner functions left out
RECURSIVE processElements(_, _, _)
processElements(node, inFile, bindings) ==
  IF node.type = "JSXElement"
  THEN Bind(processElement(node, inFile, bindings), LAMBDA processed :
         [processed EXCEPT
            !.children = [k \in DOMAIN processed.children |->
                            processElements(processed.children[k], inFile, bindings)]])
  ELSE IF node.type = "JSXExpressionContainer"
  THEN [node EXCEPT !.expression = processElements(node.expression, inFile, bindings)]
  ELSE node

attachVariableMetadata(functionLike, inFile, bindings) ==
  IF inFile = <<>> THEN functionLike
  ELSE processElements(functionLike, inFile, bindings)

heroContent == <<"h", "e", "r", "o", "C", "o", "n", "t", "e", "n", "t">>
useHeroContent == <<"u", "s", "e">> \o heroContent
h1 == <<"h", "1">>
section == <<"s", "e", "c", "t", "i", "o", "n">>

\* what heroContent is initialized with, on line 2:
\*   { title: "a", image: "a" }   "a"   ["a"]   useHeroContent()   props
\*   (useHeroContent())   and nothing
Initializers ==
  { LiteralElement("both", 2), LiteralText(2, 22), LiteralElement("row", 2),
    located(CallExpression(Identifier(useHeroContent), <<>>),
            SourceLocation(2, 22, 2, 38)),
    located(Identifier(more), SourceLocation(2, 22, 2, 26)),
    located([type |-> "ParenthesizedExpression",
             expression |-> located(CallExpression(Identifier(useHeroContent), <<>>),
                                    SourceLocation(2, 23, 2, 39))],
            SourceLocation(2, 22, 2, 40)),
    Null }

\* const heroContent = ...; let heroContent = ... with a later assignment;
\* heroContent a parameter or an import; and no binding of that name
VariableScopes ==
  { << VariableBinding(heroContent, TRUE, init, constantViolations) >> :
      init \in Initializers, constantViolations \in 0..1 }
    \cup { << VariableBinding(heroContent, FALSE, Null, 0) >>, <<>> }

\* heroContent, heroContent.title, heroContent.image, heroContent[0],
\* heroContent[index], (heroContent), more.title and useHeroContent()
VariableExpressions ==
  { Identifier(heroContent),
    MemberExpression(Identifier(heroContent), Identifier(title), FALSE),
    MemberExpression(Identifier(heroContent), Identifier(image), FALSE),
    MemberExpression(Identifier(heroContent), NumericLiteral(0), TRUE),
    MemberExpression(Identifier(heroContent), Identifier(index), TRUE),
    [type |-> "ParenthesizedExpression", expression |-> Identifier(heroContent)],
    MemberExpression(Identifier(more), Identifier(title), FALSE),
    CallExpression(Identifier(useHeroContent), <<>>) }

\* <h1>{a}</h1>, <h1>Hi{a}{b}</h1>, <Card>{a}</Card>, <img src={a} alt={b} />
\* and <section><h1>{a}</h1><img src={b} /></section>
VariableElements ==
  { JSXElement(h1, <<>>, << JSXExpressionContainer(a) >>) :
      a \in VariableExpressions }
    \cup { JSXElement(h1, <<>>,
             << Hi, JSXExpressionContainer(a), JSXExpressionContainer(b) >>) :
             a \in VariableExpressions, b \in VariableExpressions }
    \cup { JSXElement(Card, <<>>, << JSXExpressionContainer(a) >>) :
             a \in VariableExpressions }
    \cup { JSXElement(img,
             << JSXAttribute("src", JSXExpressionContainer(a)),
                JSXAttribute("alt", JSXExpressionContainer(b)) >>, <<>>) :
             a \in VariableExpressions, b \in VariableExpressions }
    \cup { JSXElement(section, <<>>,
             << JSXElement(h1, <<>>, << JSXExpressionContainer(a) >>),
                JSXElement(img, << JSXAttribute("src", JSXExpressionContainer(b)) >>,
                           <<>>) >>) :
             a \in VariableExpressions, b \in VariableExpressions }

VariableInit ==
  /\ filename \in {FileA, <<>>}
  /\ skipFiles = <<>>
  /\ program = <<>>
  /\ visited = 0
  /\ contexts = <<>>
  /\ processedLoopElements = {}
  /\ run = 1
  /\ input = <<>>
  /\ history = <<>>
  /\ scope = <<>>
  /\ loopCall = Null
  /\ annotatedBy = "none"
  /\ given \in { [type |-> "variables", element |-> element, bindings |-> bindings] :
                   element \in VariableElements, bindings \in VariableScopes }
  /\ returned = Pending

\* attachVariableMetadata({ functionLikePath, filename, helpers })
AttachVariableMetadata ==
  /\ returned = Pending
  /\ returned' = attachVariableMetadata(given.element, filename, given.bindings)
  /\ UNCHANGED <<filename, skipFiles, program, visited, contexts,
                 processedLoopElements, run, input, history, loopVars, given>>

VariableNext == AttachVariableMetadata

VariableSpec == VariableInit /\ [][VariableNext]_vars

\* ------------------------------------------------------------------------
\* getDynamicChildInfo of the three revisions of the loop module, called on
\* its own

format == <<"f", "o", "r", "m", "a", "t">>

\* the children of a loop element: Hi, {item}, {item.title}, {item.image},
\* {title} and {format(item)}
LoopChildren ==
  { Hi,
    JSXExpressionContainer(Identifier(item)),
    JSXExpressionContainer(MemberExpression(Identifier(item), Identifier(title), FALSE)),
    JSXExpressionContainer(MemberExpression(Identifier(item), Identifier(image), FALSE)),
    JSXExpressionContainer(Identifier(title)),
    JSXExpressionContainer(CallExpression(Identifier(format), << Identifier(item) >>)) }

MaxChildren == 3

ChildLists == UNION { [1..n -> LoopChildren] : n \in 1..MaxChildren }

ChildModules == {"index.tsx", "loopMetadata.ts", "index.tsx over propertyAccess.ts"}

ChildInit ==
  /\ filename = FileA
  /\ skipFiles = <<>>
  /\ program = <<>>
  /\ visited = 0
  /\ contexts = <<>>
  /\ processedLoopElements = {}
  /\ run = 1
  /\ input = <<>>
  /\ history = <<>>
  /\ scope = <<>>
  /\ loopCall = Null
  /\ annotatedBy = "none"
  /\ given \in { [type |-> "children", module |-> module,
                  element |-> JSXElement(span, <<>>, listed)] :
                   module \in ChildModules, listed \in ChildLists }
  /\ returned = Pending

\* index.tsx, namespace AttachMetadata: getDynamicChildInfo(elementPath, itemParamNames)
GetDynamicChildInfo ==
  /\ returned = Pending
  /\ given.module = "index.tsx"
  /\ returned' = getDynamicChildInfo(given.element, {item})
  /\ UNCHANGED <<filename, skipFiles, program, visited, contexts,
                 processedLoopElements, run, input, history, loopVars, given>>

\* loopMetadata.ts: getDynamicChildInfo(elementPath, itemParamNames)
LoopMetadataGetDynamicChildInfo ==
  /\ returned = Pending
  /\ given.module = "loopMetadata.ts"
  /\ returned' = loopMetadata_getDynamicChildInfo(given.element.children, {item})
  /\ UNCHANGED <<filename, skipFiles, program, visited, contexts,
                 processedLoopElements, run, input, history, loopVars, given>>

\* index.tsx, the loop module over propertyAccess.ts:
\* getDynamicChildInfo(elementPath, itemParamNames)
LoopModuleGetDynamicChildInfo ==
  /\ returned = Pending
  /\ given.module = "index.tsx over propertyAccess.ts"
  /\ returned' = loopModule_getDynamicChildInfo(given.element.children, {item})
  /\ UNCHANGED <<filename, skipFiles, program, visited, contexts,
                 processedLoopElements, run, input, history, loopVars, given>>

ChildNext ==
  \/ GetDynamicChildInfo
  \/ LoopMetadataGetDynamicChildInfo
  \/ LoopModuleGetDynamicChildInfo

ChildSpec == ChildInit /\ [][ChildNext]_vars

\* ------------------------------------------------------------------------
\* The bridge plugin (namespace AttachBridge of index.tsx)

LivePreviewBridge ==
  <<"L", "i", "v", "e", "P", "r", "e", "v", "i", "e", "w", "B", "r", "i", "d", "g", "e">>

ELEMENT_UPDATE ==
  <<"E", "L", "E", "M", "E", "N", "T", "_", "U", "P", "D", "A", "T", "E">>

BridgeOptions(debugger, messageType) ==
  [debugger |-> debugger, messageType |-> messageType]

\* attributes.find(...): the first JSXAttribute named data-editor-id
RECURSIVE editorIdAttrOf(_)
editorIdAttrOf(attributes) ==
  IF attributes = <<>> THEN Null
  ELSE IF Head(attributes).type = "JSXAttribute"
          /\ Head(attributes).name = "data-editor-id"
  THEN Head(attributes)
  ELSE editorIdAttrOf(Tail(attributes))

\* { shouldWrap, editorId } of an element under its parent path
processJSXElementForBridge(jsxElement, parentNode) ==
  LET isHTML == jsxElement.name # <<>> /\ Head(jsxElement.name) \in LowerCase
      isAlreadyWrapped == /\ parentNode.type = "JSXElement"
                          /\ parentNode.name = LivePreviewBridge
      editorIdAttr == editorIdAttrOf(jsxElement.attributes)
      editorId == IF editorIdAttr.type # "null"
                     /\ editorIdAttr.value.type = "StringLiteral"
                  THEN JsString(editorIdAttr.value.value) ELSE Null
  IN IF ~isHTML THEN [shouldWrap |-> FALSE, editorId |-> Null]
     ELSE IF isAlreadyWrapped THEN [shouldWrap |-> FALSE, editorId |-> Null]
     ELSE [shouldWrap |-> editorId.type # "null" /\ editorId.value # <<>>,
           editorId |-> editorId]

\* the bridge element around a copy of the element
wrapWithBridge(original, bridgeOptions, editorId) ==
  JSXElement(
    LivePreviewBridge,
    << JSXAttribute("editorId", StringLiteral(editorId.value)),
       JSXAttribute("messageType",
                    StringLiteral(IF bridgeOptions.messageType # <<>>
                                  THEN bridgeOptions.messageType
                                  ELSE ELEMENT_UPDATE)) >>
      \o (IF bridgeOptions.debugger
          THEN << JSXAttribute("debug",
                    JSXExpressionContainer([type |-> "BooleanLiteral", value |-> TRUE])) >>
          ELSE <<>>),
    << original >>)

\* the JSXElement visitor over a subtree: an element that is replaced is
\* visited again as the child of the bridge element put in its place
RECURSIVE visitForBridge(_, _, _)
visitForBridge(node, parentNode, bridgeOptions) ==
  IF node.type = "JSXElement"
  THEN LET bridgeInfo == processJSXElementForBridge(node, parentNode)
           below == [node EXCEPT
                       !.children = [k \in DOMAIN node.children |->
                                       visitForBridge(node.children[k], node,
                                                      bridgeOptions)]]
       IN IF bridgeInfo.shouldWrap
          THEN wrapWithBridge(below, bridgeOptions, bridgeInfo.editorId)
          ELSE below
  ELSE IF node.type = "JSXFragment"
  THEN [node EXCEPT
          !.children = [k \in DOMAIN node.children |->
                          visitForBridge(node.children[k], node, bridgeOptions)]]
  ELSE IF node.type = "JSXExpressionContainer"
  THEN [node EXCEPT
          !.expression = visitForBridge(node.expression, node, bridgeOptions)]
  ELSE node

\* the plugin over the returned tree of a file: the empty visitor for a
\* skipped file
attachBridge(tree, name, skipList, bridgeOptions) ==
  IF isSkipped(name, skipList) THEN tree
  ELSE visitForBridge(tree, Null, bridgeOptions)

\* no editor-id, data-editor-id="old", data-editor-id="", data-editor-id={title},
\* title="old" data-editor-id="dup", {...more} data-editor-id="old", and
\* data-editor-id={title} data-editor-id="old"
BridgeAttributes ==
  { <<>>,
    << JSXAttribute("data-editor-id", StringLiteral(old)) >>,
    << JSXAttribute("data-editor-id", StringLiteral(<<>>)) >>,
    << JSXAttribute("data-editor-id", JSXExpressionContainer(Identifier(title))) >>,
    << JSXAttribute("title", StringLiteral(old)),
       JSXAttribute("data-editor-id", StringLiteral(dup)) >>,
    << [type |-> "JSXSpreadAttribute", argument |-> Identifier(more)],
       JSXAttribute("data-editor-id", StringLiteral(old)) >>,
    << JSXAttribute("data-editor-id", JSXExpressionContainer(Identifier(title))),
       JSXAttribute("data-editor-id", StringLiteral(old)) >> }

BridgeTags == {span, Card, LivePreviewBridge}

BridgeLeaves ==
  { JSXElement(tag, attributes, <<Hi>>) :
      tag \in BridgeTags, attributes \in BridgeAttributes }

\* a leaf, a leaf in an element, in a fragment or in {...}
BridgeChildren ==
  BridgeLeaves
    \cup { JSXElement(tag, attributes, <<leaf>>) :
             tag \in BridgeTags,
             attributes \in { <<>>, << JSXAttribute("data-editor-id", StringLiteral(dup)) >> },
             leaf \in BridgeLeaves }
    \cup { JSXFragment(<<leaf>>) : leaf \in BridgeLeaves }
    \cup { JSXExpressionContainer(leaf) : leaf \in BridgeLeaves }

BridgeRoots ==
  { JSXElement(tag, attributes, <<child>>) :
      tag \in BridgeTags,
      attributes \in { <<>>, << JSXAttribute("data-editor-id", StringLiteral(old)) >> },
      child \in BridgeChildren }

BridgeInit ==
  /\ filename = FileA
  /\ skipFiles \in { <<>>, << FileA >> }
  /\ program = <<>>
  /\ visited = 0
  /\ contexts = <<>>
  /\ processedLoopElements = {}
  /\ run = 1
  /\ input = <<>>
  /\ history = <<>>
  /\ scope = <<>>
  /\ loopCall = Null
  /\ annotatedBy = "none"
  /\ given \in { [type |-> "bridge", tree |-> tree,
                  options |-> BridgeOptions(debugger, <<>>)] :
                   tree \in BridgeRoots, debugger \in BOOLEAN }
  /\ returned = <<>>

\* attachBridge over the file, and over its own output
AttachBridge ==
  /\ Len(returned) < MaxRuns
  /\ returned' =
       Append(returned,
              attachBridge(IF returned = <<>> THEN given.tree
                           ELSE returned[Len(returned)],
                           filename, skipFiles, given.options))
  /\ UNCHANGED <<filename, skipFiles, program, visited, contexts,
                 processedLoopElements, run, input, history, loopVars, given>>

BridgeNext == AttachBridge

BridgeSpec == BridgeInit /\ [][BridgeNext]_vars

\* ------------------------------------------------------------------------
\* A component declared in the body of another

\* what the callback of the inner component's loop returns: <span>{item.title}</span>,
\* <span key={item.title}>Hi</span>, <span>Hi</span> and <span><span>{item.title}</span></span>
InnerLoopElements ==
  { JSXElement(span, <<>>, << JSXExpressionContainer(
      MemberExpression(Identifier(item), Identifier(title), FALSE)) >>),
    JSXElement(span, << JSXAttribute("key", JSXExpressionContainer(
      MemberExpression(Identifier(item), Identifier(title), FALSE))) >>, <<Hi>>),
    JSXElement(span, <<>>, <<Hi>>),
    JSXElement(span, <<>>, << JSXElement(span, <<>>, << JSXExpressionContainer(
      MemberExpression(Identifier(item), Identifier(title), FALSE)) >>) >>) }

\* const Panel = () => <div>{items.map(callback)}</div>, the list behind a
\* <span> or on its own
InnerFunctions ==
  { ArrowFunctionExpression(<<>>,
      JSXElement(div, <<>>,
        before \o << JSXExpressionContainer(
          CallExpression(MemberExpression(Identifier(items), Identifier(map), FALSE),
                         << ArrowFunctionExpression(params, element) >>)) >>)) :
      before \in { <<>>, << JSXElement(span, <<>>, <<Hi>>) >> },
      params \in { << Identifier(item) >>, << Identifier(item), Identifier(index) >> },
      element \in InnerLoopElements }

\* what the outer component returns: <Panel />, <div><Panel /></div> and
\* <div><span>Hi</span><Panel /></div>
OuterRoots ==
  { JSXElement(Panel, <<>>, <<>>),
    JSXElement(div, <<>>, << JSXElement(Panel, <<>>, <<>>) >>),
    JSXElement(div, <<>>, << JSXElement(span, <<>>, <<Hi>>),
                             JSXElement(Panel, <<>>, <<>>) >>) }

\* function Hero() { const items = [...]; const Panel = ...; return root } and
\* const Hero = function () { ... }
InnerPrograms ==
  { << Component(kind, Hero, <<root>>,
                 << Binding(items, "const", TRUE, ArrayExpression(<<>>)),
                    Binding(Panel, "const", TRUE, inner) >>) >> :
      kind \in {"FunctionDeclaration", "FunctionExpression"},
      root \in OuterRoots, inner \in InnerFunctions }

InnerInit ==
  /\ filename \in Filenames \ {<<>>}
  /\ skipFiles = <<>>
  /\ program \in InnerPrograms
  /\ visited = 0
  /\ contexts = <<>>
  /\ processedLoopElements = {}
  /\ run = 1
  /\ input = program
  /\ history = <<>>
  /\ scope = <<>>
  /\ loopCall = Null
  /\ annotatedBy = "none"
  /\ given = Null
  /\ returned = Null

\* the component a declarator of the body declares: its function, under the
\* other declarations of the body
declaredComponent(component, j) ==
  Component(component.scope[j].init.type, component.scope[j].name,
            << component.scope[j].init.body >>,
            SelectSeq(component.scope, LAMBDA binding : ~IsFunction(binding.init)))

\* the visitor reaches a variable declarator in the body of the component it
\* has processed, and that declarator declares a function
VisitDeclaredComponent ==
  /\ ~isSkipped(filename, skipFiles)
  /\ visited = Len(program)
  /\ Len(contexts) = Len(program)
  /\ \E j \in DOMAIN program[visited].scope :
       /\ program[visited].scope[j].isVariableDeclarator
       /\ IsFunction(program[visited].scope[j].init)
       /\ \E r \in { processComponent(declaredComponent(program[visited], j),
                                       <<run, visited, 0, j>>,
                                       program[visited].scope[j].name, filename,
                                       processedLoopElements) } :
            /\ program' = [program EXCEPT
                             ![visited].scope[j].init.body = r.component.returns[1]]
            /\ contexts' = Append(contexts, r.context)
            /\ processedLoopElements' = r.processed
  /\ UNCHANGED <<filename, skipFiles, visited, run, input, history, loopVars, pureVars>>

InnerNext == VisitComponent \/ VisitDeclaredComponent

InnerSpec == InnerInit /\ [][InnerNext]_vars

\* ------------------------------------------------------------------------
\* assignElementId, called on its own

MaxCounter == 3
MaxUsed == 4

\* the fingerprint generateNewId makes at a value of the counter
fingerprintAt(context, counter) ==
  md5Hex12(internalId([context EXCEPT !.elementCounter = counter]))

\* a context in the middle of a component: under the root or under a <div>,
\* the counter anywhere up to MaxCounter, and among the used ids any of the
\* fingerprints of the counter values up to MaxUsed, and "old"
AssignContexts ==
  { [IdGenerationContext(FileA) EXCEPT
       !.elementPath = elementPath, !.elementCounter = counter,
       !.usedIds = { fingerprintAt([IdGenerationContext(FileA) EXCEPT
                                      !.elementPath = elementPath], k) : k \in used }
                     \cup authored] :
      elementPath \in { <<>>, <<div>> }, counter \in 0..MaxCounter,
      used \in SUBSET (0..MaxUsed), authored \in { {}, {old} } }

\* <span>, and <span> with data-editor-id="old", "", " ", the fingerprint of
\* the counter value 1 under a <div>, and {title}
AssignElements ==
  { JSXElement(span, <<>>, <<>>),
    JSXElement(span, << JSXAttribute("data-editor-id", JSXExpressionContainer(
                          Identifier(title))) >>, <<>>) }
    \cup { JSXElement(span, << JSXAttribute("data-editor-id", StringLiteral(value)) >>,
                      <<>>) :
             value \in { old, <<>>, <<" ">>, md5Hex12("div.element[1]@src/A.js") } }

AssignInit ==
  /\ filename = FileA
  /\ skipFiles = <<>>
  /\ program = <<>>
  /\ visited = 0
  /\ contexts = <<>>
  /\ processedLoopElements = {}
  /\ run = 1
  /\ input = <<>>
  /\ history = <<>>
  /\ scope = <<>>
  /\ loopCall = Null
  /\ annotatedBy = "none"
  /\ given \in { [type |-> "assign", openingElement |-> element,
                  context |-> context, dynamicSuffix |-> dynamicSuffix] :
                   element \in AssignElements, context \in AssignContexts,
                   dynamicSuffix \in { Null, Identifier(index) } }
  /\ returned = Pending

\* assignElementId(openingElement, context, { dynamicSuffix })
AssignElementId ==
  /\ returned = Pending
  /\ returned' = assignElementId(given.openingElement, given.context,
                                 given.dynamicSuffix)
  /\ UNCHANGED <<filename, skipFiles, program, visited, contexts,
                 processedLoopElements, run, input, history, loopVars, given>>

AssignNext == AssignElementId

AssignSpec == AssignInit /\ [][AssignNext]_vars

\* ------------------------------------------------------------------------
\* The runtime bridge (LivePreviewBridge.tsx, and the BridgeWrapper that
\* came before it)

\* a JavaScript object is a function over its keys; {} is the one without
\* keys, null is Null
EmptyObject == [k \in {} |-> Null]

isNull(value) == "type" \in DOMAIN value /\ value["type"] = "null"

\* { ...target, ...source }
spread(target, source) == source @@ target

\* the object without some of its keys
omit(object, names) == [k \in DOMAIN object \ names |-> object[k]]

\* a style is a string or an object of properties
CSSText(value) == [type |-> "string", value |-> value]
CSSProperties(entries) == [type |-> "object", entries |-> entries]

isTruthyStyle(style) == style.type = "object" \/ (style.type = "string" /\ style.value # <<>>)

mergeStyles(original, override) ==
  IF override.type # "object" \/ original.type # "object" THEN override
  ELSE CSSProperties(spread(original.entries, override.entries))

\* the loop of mergeOverrides over the overrides that are not null
RECURSIVE mergeEach(_, _)
mergeEach(merged, validOverrides) ==
  IF validOverrides = <<>> THEN merged
  ELSE LET override == Head(validOverrides)
           spreaded == spread(merged, override)
           styled ==
             IF /\ "style" \in DOMAIN override
                /\ isTruthyStyle(override["style"])
                /\ isTruthyStyle(spreaded["style"])
             THEN [spreaded EXCEPT !["style"] =
                     IF override["style"].type = "object" /\ @.type = "object"
                     THEN CSSProperties(spread(@.entries, override["style"].entries))
                     ELSE override["style"]]
             ELSE spreaded
           attributed ==
             IF "attributes" \in DOMAIN override
             THEN [styled EXCEPT !["attributes"] = spread(@, override["attributes"])]
             ELSE styled
       IN  mergeEach(attributed, Tail(validOverrides))

\* LivePreviewBridge.tsx
mergeOverrides(overridesList) ==
  LET validOverrides == SelectSeq(overridesList, LAMBDA override : ~isNull(override))
  IN  IF Len(validOverrides) = 0 THEN Null
      ELSE IF Len(validOverrides) = 1 THEN validOverrides[1]
      ELSE mergeEach(EmptyObject, validOverrides)

\* BridgeWrapper: one null among the overrides makes the result null
BridgeWrapper_mergeOverrides(overridesList) ==
  IF \E k \in DOMAIN overridesList : isNull(overridesList[k]) THEN Null
  ELSE mergeOverrides(overridesList)

\* window.__elementOverrides is a function over editor ids
updateGlobalOverrides(elementOverrides, editorId, overrides) ==
  IF isNull(overrides) \/ DOMAIN overrides = {}
  THEN omit(elementOverrides, {editorId})
  ELSE spread(elementOverrides, editorId :> overrides)

getStoredOverrides(elementOverrides, editorId) ==
  IF editorId \in DOMAIN elementOverrides THEN elementOverrides[editorId]
  ELSE EmptyObject

\* element.getAttribute(name): <<>> stands for null
getAttribute(element, name) ==
  IF name \in DOMAIN element THEN element[name] ELSE <<>>

\* document.querySelector(`[data-editor-id="${editorId}"]`) over the
\* elements of the document, then the file attribute of the element found
getElementFilePath(document, editorId) ==
  LET found == { k \in DOMAIN document :
                   getAttribute(document[k], "data-editor-id") = editorId }
  IN  IF found = {} THEN <<>>
      ELSE LET element == document[CHOOSE k \in found : \A other \in found : k <= other]
           IN  IF getAttribute(element, "data-component-file") # <<>>
               THEN getAttribute(element, "data-component-file")
               ELSE getAttribute(element, "data-rendered-by")

\* the props the child is cloned with, children included, under overrides
\* that are not empty: the same in both components for overrides whose
\* style is not the empty string and whose attributes hold no style
overriddenProps(child, overrides) ==
  LET attributes == IF "attributes" \in DOMAIN overrides
                    THEN overrides["attributes"] ELSE EmptyObject
      direct == omit(overrides, {"children", "attributes"})
      childStyle == IF "style" \in DOMAIN child THEN child["style"] ELSE Null
      style == IF "style" \in DOMAIN direct /\ isTruthyStyle(direct["style"])
               THEN mergeStyles(childStyle, direct["style"])
               ELSE childStyle
      props == spread(spread(child, attributes), direct)
      finalChildren == IF "children" \in DOMAIN overrides
                       THEN overrides["children"] ELSE child["children"]
  IN  spread(IF style.type = "null" THEN omit(props, {"style"})
             ELSE spread(props, "style" :> style),
             "children" :> finalChildren)

\* the body of the component below its hooks, for one valid child: the
\* element it returns and the store it leaves
renderBridge(editorId, child, overrides, elementOverrides) ==
  IF DOMAIN overrides = {}
  THEN [element |-> child,
        elementOverrides |-> updateGlobalOverrides(elementOverrides, editorId, Null)]
  ELSE [element |-> overriddenProps(child, overrides),
        elementOverrides |-> spread(elementOverrides,
                                    editorId :> overriddenProps(child, overrides))]

\* a mounted bridge: its state, the store and the element it has rendered
Mounted(overrides, drawn) ==
  [overrides |-> overrides, elementOverrides |-> drawn.elementOverrides,
   element |-> drawn.element]

\* handleMessage of LivePreviewBridge.tsx, and the render that setOverrides
\* brings about
handleMessage(bridge, mounted, data) ==
  IF data.type # bridge.messageType THEN mounted
  ELSE LET elementFilePath == getElementFilePath(<< mounted.element >>, bridge.editorId)
       IN  IF elementFilePath = <<>> THEN mounted
           ELSE LET relevantUpdates ==
                      SelectSeq(data.updates, LAMBDA update :
                        update.editorId = bridge.editorId
                          /\ update.filePath = elementFilePath)
                    newOverrides ==
                      mergeOverrides([k \in DOMAIN relevantUpdates |->
                                        relevantUpdates[k].overrides])
                    held == IF isNull(newOverrides) THEN EmptyObject ELSE newOverrides
                IN  Mounted(held,
                      renderBridge(bridge.editorId, bridge.child, held,
                        updateGlobalOverrides(mounted.elementOverrides,
                                              bridge.editorId, newOverrides)))

\* handleMessage of BridgeWrapper: the type is "ELEMENT_UPDATE", and the
\* store is written by the render alone unless the overrides are reset
BridgeWrapper_handleMessage(bridge, mounted, data) ==
  IF data.type # ELEMENT_UPDATE THEN mounted
  ELSE LET elementFilePath == getElementFilePath(<< mounted.element >>, bridge.editorId)
       IN  IF elementFilePath = <<>> THEN mounted
           ELSE LET relevantUpdates ==
                      SelectSeq(data.updates, LAMBDA update :
                        update.editorId = bridge.editorId
                          /\ update.filePath = elementFilePath)
                    newOverrides ==
                      IF Len(relevantUpdates) = 0 THEN Null
                      ELSE BridgeWrapper_mergeOverrides(
                             [k \in DOMAIN relevantUpdates |->
                                relevantUpdates[k].overrides])
                    held == IF isNull(newOverrides) THEN EmptyObject ELSE newOverrides
                IN  Mounted(held,
                      renderBridge(bridge.editorId, bridge.child, held,
                        IF isNull(newOverrides)
                        THEN omit(mounted.elementOverrides, {bridge.editorId})
                        ELSE mounted.elementOverrides))

\* the posted messages: at most MaxUpdates updates each, MaxPosted of them
MaxUpdates == 2
MaxPosted == 2

EditorId == <<"e", "1">>
OtherEditorId == <<"e", "2">>
OtherMessage == <<"P", "I", "N", "G">>

\* the wrapped elements: a root element and a rendered one, of src/A.js
BridgeChildrenProps ==
  { ("data-editor-id" :> EditorId) @@ ("data-component-file" :> FileA)
      @@ ("className" :> <<"c">>) @@ ("children" :> <<"H", "i">>),
    ("data-editor-id" :> EditorId) @@ ("data-rendered-by" :> FileA)
      @@ ("style" :> CSSProperties("color" :> <<"r", "e", "d">>))
      @@ ("children" :> <<"H", "i">>) }

ElementUpdate(editorId, filePath, overrides) ==
  [editorId |-> editorId, filePath |-> filePath, overrides |-> overrides]

Overrides ==
  { Null,
    "className" :> <<"a">>,
    ("className" :> <<"b">>) @@ ("title" :> <<"t">>),
    "style" :> CSSProperties("margin" :> <<"0">>),
    "attributes" :> ("data-component-file" :> FileB) }

Updates ==
  { ElementUpdate(EditorId, FileA, overrides) : overrides \in Overrides }
    \cup { ElementUpdate(address[1], address[2], overrides) :
             address \in { <<OtherEditorId, FileA>>, <<EditorId, FileB>> },
             overrides \in { "className" :> <<"x">> } }

RECURSIVE UpdateLists(_)
UpdateLists(n) ==
  IF n = 0 THEN { <<>> }
  ELSE UpdateLists(n - 1)
         \cup { Append(updates, update) :
                  updates \in { l \in UpdateLists(n - 1) : Len(l) = n - 1 },
                  update \in Updates }

BridgeMessage(type, updates) == [type |-> type, updates |-> updates]

Messages ==
  { BridgeMessage(type, updates) :
      type \in { ELEMENT_UPDATE, OtherMessage }, updates \in UpdateLists(MaxUpdates) }

RuntimeModules == { "LivePreviewBridge.tsx", "BridgeWrapper" }

\* a bridge mounted over an empty store: useState reads the stored
\* overrides and the first render returns the child
RuntimeInit ==
  /\ filename = FileA
  /\ skipFiles = <<>>
  /\ program = <<>>
  /\ visited = 0
  /\ contexts = <<>>
  /\ processedLoopElements = {}
  /\ run = 1
  /\ input = <<>>
  /\ history = <<>>
  /\ scope = <<>>
  /\ loopCall = Null
  /\ annotatedBy = "none"
  /\ given \in { [type |-> "runtime", module |-> module, editorId |-> EditorId,
                  messageType |-> messageType, child |-> child] :
                   module \in RuntimeModules,
                   messageType \in { ELEMENT_UPDATE, OtherMessage },
                   child \in BridgeChildrenProps }
  /\ given.module = "BridgeWrapper" => given.messageType = ELEMENT_UPDATE
  /\ returned =
       [mounted |-> Mounted(getStoredOverrides(EmptyObject, given.editorId),
                            renderBridge(given.editorId, given.child,
                                         getStoredOverrides(EmptyObject, given.editorId),
                                         EmptyObject)),
        latest |-> BridgeMessage(<<>>, <<>>),
        heard |-> 0,
        posted |-> 0]

\* window.postMessage(data) reaches the listener of LivePreviewBridge
HandleMessage ==
  /\ given.type = "runtime"
  /\ given.module = "LivePreviewBridge.tsx"
  /\ returned.posted < MaxPosted
  /\ \E data \in Messages :
       returned' = [mounted |-> handleMessage(given, returned.mounted, data),
                    latest |-> IF data.type = given.messageType THEN data
                               ELSE returned.latest,
                    heard |-> IF data.type = given.messageType
                              THEN returned.heard + 1 ELSE returned.heard,
                    posted |-> returned.posted + 1]
  /\ UNCHANGED <<filename, skipFiles, program, visited, contexts,
                 processedLoopElements, run, input, history, loopVars, given>>

\* window.postMessage(data) reaches the listener of BridgeWrapper
BridgeWrapperHandleMessage ==
  /\ given.type = "runtime"
  /\ given.module = "BridgeWrapper"
  /\ returned.posted < MaxPosted
  /\ \E data \in Messages :
       returned' = [mounted |-> BridgeWrapper_handleMessage(given, returned.mounted, data),
                    latest |-> IF data.type = given.messageType THEN data
                               ELSE returned.latest,
                    heard |-> IF data.type = given.messageType
                              THEN returned.heard + 1 ELSE returned.heard,
                    posted |-> returned.posted + 1]
  /\ UNCHANGED <<filename, skipFiles, program, visited, contexts,
                 processedLoopElements, run, input, history, loopVars, given>>

RuntimeNext == HandleMessage \/ BridgeWrapperHandleMessage

RuntimeSpec == RuntimeInit /\ [][RuntimeNext]_vars
\* ------------------------------------------------------------------------
\* Observations on a run: the source tree of the run (input) against the
\* annotated tree (program), node by node.  Annotation keeps every child at
\* its position: an element stays where it was and a wrapped child is
\* replaced by the span that holds it; a returned factory call is compared
\* as the element it converts to.

MetadataNames ==
  {"data-component-file", "data-component-name", "data-editor-id",
   "data-rendered-by", "data-children-source", "data-img-source"}

\* the value of the first attribute called name, Null when there is none
attributeNamed(element, name) ==
  Bind(findAttribute(element.attributes, name), LAMBDA i :
    IF i = 0 THEN Null ELSE element.attributes[i].value)

\* how many attributes of the element are called name
attributeCount(element, name) ==
  Cardinality({i \in DOMAIN element.attributes :
                 element.attributes[i].type = "JSXAttribute"
                   /\ element.attributes[i].name = name})

\* the id an editor-id attribute value stands for: the string itself, or
\* the literal part of `${id}:${suffix}` before the colon
idOfValue(value) ==
  IF value.type = "StringLiteral" THEN value.value
  ELSE IF value.type = "JSXExpressionContainer"
            /\ value.expression.type = "TemplateLiteral"
            /\ value.expression.head # <<>>
  THEN SubSeq(value.expression.head, 1, Len(value.expression.head) - 1)
  ELSE <<>>

isCallbackSlot(node) ==
  /\ node.type = "JSXExpressionContainer"
  /\ node.expression.type = "CallExpression"
  /\ Len(node.expression.arguments) > 0
  /\ IsFunction(node.expression.arguments[1])

\* Where a node stands: role is "root" for a component root (the returned
\* element, or an element child of the returned fragment), "returned" for
\* an element a callback returns, "inner" below those; parent is the element
\* or fragment holding the node (Null for a returned tree and for a callback
\* body) and parentRole its role; visited tells whether the passes reach the
\* node: the root pass reaches everything outside callbacks, the loop pass
\* the returned elements of a collection rendering that reference an item
\* name, and what lies below them.
Place(role, parent, parentRole, reached, component, itemParamNames) ==
  [role |-> role, parent |-> parent, parentRole |-> parentRole,
   visited |-> reached, component |-> component,
   itemParamNames |-> itemParamNames]

RECURSIVE observe(_, _, _, _)
RECURSIVE observeAll(_, _, _, _, _)

observeAll(ins, outs, k, at, file) ==
  IF k > Len(ins) THEN {}
  ELSE observe(ins[k], outs[k], at, file) \cup observeAll(ins, outs, k + 1, at, file)

observe(in, out, at, file) ==
  IF in.type = "JSXElement"
  THEN Bind(IF at.role = "returned"
            THEN [at EXCEPT !.visited =
                    @ /\ elementReferencesParamNames(in, at.itemParamNames)]
            ELSE at,
         LAMBDA here :
           {[in |-> in, out |-> out, at |-> here]}
             \cup observeAll(in.children, out.children, 1,
                             [here EXCEPT !.role = "inner", !.parent = in,
                                          !.parentRole = here.role], file))
  ELSE IF in.type = "CallExpression" /\ convertCreateElementToJSX(in).type # "null"
  THEN observe(convertCreateElementToJSX(in),
               IF out.type = "CallExpression" THEN convertCreateElementToJSX(out) ELSE out,
               at, file)
  ELSE IF in.type = "JSXFragment"
  THEN observeAll(in.children, out.children, 1,
                  [at EXCEPT !.parent = in, !.parentRole = at.role], file)
  ELSE IF isCallbackSlot(in)
  THEN {[in |-> in, out |-> out, at |-> at]}
         \cup observe(in.expression.arguments[1].body,
                      out.expression.arguments[1].body,
                      Place("returned", Null, "none",
                            isCollectionRenderingCall(in.expression, file,
                                                      at.component.scope),
                            at.component,
                            itemParamNamesOf(in.expression.arguments[1])),
                      file)
  ELSE IF in.type = "BlockStatement"
  THEN UNION { observe(in.body[k].argument, out.body[k].argument, at, file) :
                 k \in { s \in DOMAIN in.body : in.body[s].type = "ReturnStatement" } }
  ELSE {[in |-> in, out |-> out, at |-> at]}

\* the observations of a run that took source to result under file, over
\* the first n components
observationsOf(source, result, file, n) ==
  UNION { observeAll(source[c].returns, result[c].returns, 1,
                     Place("root", Null, "none", TRUE, source[c], {}), file) :
            c \in 1..n }

\* the observations of the components the current run has finished
observations == observationsOf(input, program, filename, visited)

isElement(o) == o.in.type = "JSXElement"

\* a text run or an expression slot that stands below an element
isTextRun(o) == o.in.type = "JSXText" /\ o.at.parent.type = "JSXElement"

isIdentifierSlot(o) ==
  /\ o.in.type = "JSXExpressionContainer"
  /\ o.in.expression.type = "Identifier"
  /\ o.at.parent.type = "JSXElement"

\* the child was replaced by a synthetic span that carries rendered-by and an
\* editor-id and holds the child as its only child
isWrappedBy(o, file) ==
  /\ o.out.type = "JSXElement"
  /\ o.out.name = span
  /\ o.out.children = <<o.in>>
  /\ attributeNamed(o.out, "data-rendered-by") = StringLiteral(file)
  /\ attributeNamed(o.out, "data-editor-id").type = "StringLiteral"
  /\ Len(attributeNamed(o.out, "data-editor-id").value) = DigestLength

\* ------------------------------------------------------------------------
\* Properties

\* the ids the elements of a component carry after a run, wrapping spans
\* included
carriedIds(source, result, file, c) ==
  { idOfValue(attributeNamed(o.out, "data-editor-id")) :
      o \in { e \in observationsOf(source, result, file, Len(source)) :
                /\ e.out.type = "JSXElement"
                /\ e.at.component = source[c]
                /\ attributeNamed(e.out, "data-editor-id").type # "null" } }

\* the assignments of a run whose id the output still carries, as
\* <<component, call>> pairs
carriedAssignmentsOf(source, result, file, ctxs) ==
  UNION { { <<c, i>> : i \in { j \in DOMAIN ctxs[c].calls :
                                  ctxs[c].calls[j].finalId
                                    \in carriedIds(source, result, file, c) } } :
            c \in DOMAIN ctxs }

carriedAssignments == carriedAssignmentsOf(input, program, filename, contexts)

\* C1 (Uniqueness): after a file is annotated, the editor-ids assigned to its
\* elements, over every component the file defines, are pairwise distinct.
C1_UniqueInFile ==
  Finished =>
    \A a, b \in carriedAssignments :
      a # b => contexts[a[1]].calls[a[2]].finalId # contexts[b[1]].calls[b[2]].finalId

\* the finished runs that transformed the input of the current run under
\* the file path of the current run
sameCompilations ==
  { h \in DOMAIN history :
      history[h].input = input /\ history[h].filename = filename }

\* C2 (Determinism): a run on the same input under the same file path as an
\* earlier run of the process ends with the same output, whatever was
\* processed in between.
C2_Deterministic ==
  Finished => \A h \in sameCompilations : history[h].output = program

\* a finished second compilation of a file with a processed loop, after the
\* first one has left its elements in processedLoopElements
C2_Recompiled ==
  /\ Finished
  /\ sameCompilations # {}
  /\ program # input
  /\ \E a, b \in processedLoopElements : a[1] = 1 /\ b[1] = run /\ run > 1

\* the finished run whose output the current run received as its input,
\* under the same file path
isReannotation ==
  /\ history # <<>>
  /\ history[Len(history)].output = input
  /\ history[Len(history)].filename = filename

\* C3 (Idempotence): annotating the output of a run again under the same
\* file path yields that output unchanged, loops included.
C3_Idempotent ==
  (Finished /\ isReannotation) => program = input

\* every assignElementId call of the finished components of the run
calls ==
  UNION { { contexts[c].calls[i] : i \in DOMAIN contexts[c].calls } :
            c \in DOMAIN contexts }

\* a string with a character that is not whitespace
isNonBlankString(value) ==
  /\ value.type = "StringLiteral"
  /\ \E i \in DOMAIN value.value : value.value[i] \notin Whitespace

\* the element's existing editor-id is a string, neither empty nor
\* whitespace only, that the context has not used yet
isKeepable(call) ==
  isNonBlankString(call.existing) /\ call.existing.value \notin call.usedBefore

\* the call adopted the existing id without touching the generator
isKept(call) ==
  /\ call.existing.type = "StringLiteral"
  /\ call.finalId = call.existing.value
  /\ call.counterAfter = call.counterBefore

\* the call drew a digest the context had not used
isSynthesized(call) ==
  /\ call.counterAfter > call.counterBefore
  /\ call.finalId \notin call.usedBefore
  /\ \E row \in MD5Rows : row[2] = call.finalId
  /\ Len(call.finalId) = DigestLength

roots == { o \in observations : isElement(o) /\ o.at.role = "root" }

\* the id of the element's editor-id attribute is one of the digests
hasFreshId(element) ==
  /\ attributeNamed(element, "data-editor-id").type = "StringLiteral"
  /\ Len(attributeNamed(element, "data-editor-id").value) = DigestLength
  /\ \E row \in MD5Rows : row[2] = attributeNamed(element, "data-editor-id").value

\* the root carries the file path and the component name of the run
isOwnedRoot(o) ==
  /\ attributeNamed(o.out, "data-component-file") = StringLiteral(filename)
  /\ attributeNamed(o.out, "data-component-name") = StringLiteral(o.at.component.id)

annotated == { o \in observations : o.out.type = "JSXElement" }

\* C6 (No duplicate metadata attributes), as claimed: after annotation no
\* element carries two attributes of the same metadata name.
C6_NoDuplicates ==
  Finished =>
    \A o \in annotated : \A name \in MetadataNames : attributeCount(o.out, name) <= 1

\* C6, amended: annotation never adds a second attribute of a metadata name.
\* A write to a name the element carries replaces the first attribute of
\* that name where it stands, so every source attribute keeps its position
\* and name, what is appended are names the source did not carry, each
\* once, and an element whose source carried a name at most once carries it
\* at most once afterwards.
C6_ReplacedInPlace ==
  Finished =>
    \A o \in annotated :
      IF isElement(o)
      THEN /\ Len(o.out.attributes) >= Len(o.in.attributes)
           /\ \A i \in DOMAIN o.in.attributes :
                o.out.attributes[i].name = o.in.attributes[i].name
           /\ \A i \in DOMAIN o.out.attributes :
                i > Len(o.in.attributes) =>
                  /\ attributeCount(o.in, o.out.attributes[i].name) = 0
                  /\ attributeCount(o.out, o.out.attributes[i].name) = 1
           /\ \A name \in MetadataNames :
                attributeCount(o.in, name) <= 1 => attributeCount(o.out, name) <= 1
      ELSE \A name \in MetadataNames : attributeCount(o.out, name) <= 1

\* a root that carried one component-file, one component-name and one
\* editor-id has the file and the name rewritten where they stood and
\* carries each of the three once
C6_Rewritten ==
  /\ Finished
  /\ \E o \in roots :
       /\ attributeNamed(o.in, "data-component-file") = StringLiteral(old)
       /\ attributeNamed(o.out, "data-component-file") = StringLiteral(filename)
       /\ findAttribute(o.out.attributes, "data-component-file")
            = findAttribute(o.in.attributes, "data-component-file")
       /\ \A name \in {"data-component-file", "data-component-name", "data-editor-id"} :
            attributeCount(o.in, name) = 1 /\ attributeCount(o.out, name) = 1

\* the finished runs that compiled the input of the current run under
\* another file path
otherCompilations ==
  { h \in DOMAIN history :
      history[h].input = input /\ history[h].filename # filename }

\* the ids a run assigned and its output carries
producedIds(source, result, file, ctxs) ==
  { ctxs[a[1]].calls[a[2]].finalId :
      a \in carriedAssignmentsOf(source, result, file, ctxs) }

\* those of them the generator synthesized
synthesizedIds(source, result, file, ctxs) ==
  { ctxs[a[1]].calls[a[2]].finalId :
      a \in { b \in carriedAssignmentsOf(source, result, file, ctxs) :
                isSynthesized(ctxs[b[1]].calls[b[2]]) } }

\* the non-blank string ids the elements of the source carry
explicitIds(source) ==
  { idOfValue(attributeNamed(o.in, "data-editor-id")) :
      o \in { e \in observationsOf(source, source, <<>>, Len(source)) :
                /\ isElement(e)
                /\ isNonBlankString(attributeNamed(e.in, "data-editor-id")) } }

\* C7 (Cross-file distinctness), as claimed: the ids produced for a source
\* under one file path and those produced for it under another are disjoint.
C7_DisjointAcrossFiles ==
  Finished =>
    \A h \in otherCompilations :
      producedIds(input, program, filename, contexts)
        \cap producedIds(history[h].input, history[h].output, history[h].filename,
                         history[h].contexts) = {}

\* C7, amended: the ids synthesized for a source under one file path and
\* those synthesized for it under another are disjoint (over the tabulated
\* seeds); what the two compilations share are the source's own string ids,
\* which the preservation policy keeps under every file path.
C7_SynthesizedDisjoint ==
  Finished =>
    \A h \in otherCompilations :
      /\ synthesizedIds(input, program, filename, contexts)
           \cap synthesizedIds(history[h].input, history[h].output,
                               history[h].filename, history[h].contexts) = {}
      /\ producedIds(input, program, filename, contexts)
           \cap producedIds(history[h].input, history[h].output,
                            history[h].filename, history[h].contexts)
           \subseteq explicitIds(input)

\* a source with an explicit id, compiled under both file paths: each
\* compilation synthesized ids and both kept the explicit one
C7_CompiledUnderBoth ==
  /\ Finished
  /\ \E h \in otherCompilations :
       /\ synthesizedIds(input, program, filename, contexts) # {}
       /\ synthesizedIds(history[h].input, history[h].output,
                         history[h].filename, history[h].contexts) # {}
       /\ dup \in producedIds(input, program, filename, contexts)
       /\ dup \in producedIds(history[h].input, history[h].output,
                              history[h].filename, history[h].contexts)

\* the elements the passes reach that are no component roots
reachedBelowRoots ==
  { o \in observations : isElement(o) /\ o.at.visited /\ o.at.role # "root" }

\* C8 (Ownership boundary): an element the passes reach that is no component
\* root receives rendered-by (the file path) and an editor-id exactly when
\* it is native; a composed component is left as it was.
C8_OwnershipBoundary ==
  Finished =>
    \A o \in reachedBelowRoots :
      IF isReactComponent(o.in)
      THEN /\ attributeNamed(o.out, "data-rendered-by")
                = attributeNamed(o.in, "data-rendered-by")
           /\ attributeNamed(o.out, "data-editor-id")
                = attributeNamed(o.in, "data-editor-id")
      ELSE /\ attributeNamed(o.out, "data-rendered-by") = StringLiteral(filename)
           /\ idOfValue(attributeNamed(o.out, "data-editor-id")) # <<>>

\* the same boundary below the roots and below the returned elements, where
\* the code keeps it
C8_BoundaryBelowReturned ==
  Finished =>
    \A o \in reachedBelowRoots :
      o.at.role = "inner" =>
        IF isReactComponent(o.in)
        THEN o.out.attributes = o.in.attributes
        ELSE /\ attributeNamed(o.out, "data-rendered-by") = StringLiteral(filename)
             /\ idOfValue(attributeNamed(o.out, "data-editor-id")) # <<>>

isNonBlankText(node) ==
  node.type = "JSXText" /\ \E i \in DOMAIN node.value : node.value[i] \notin Whitespace

\* the parent is a composed component whose children the passes process
\* with wrapping: one that is neither a component root nor a returned
\* element of a callback
isHandedOver(o) ==
  /\ o.at.visited
  /\ isReactComponent(o.at.parent)
  /\ o.at.parentRole = "inner"

textRuns == { o \in observations : isTextRun(o) }

\* C9 (Text wrapping), as claimed: a text run is replaced by a synthetic span
\* exactly when it is not whitespace only and its parent is a composed
\* component; every other text run is left untouched.
C9_TextWrapping ==
  Finished =>
    \A o \in textRuns :
      IF isNonBlankText(o.in) /\ isReactComponent(o.at.parent)
      THEN isWrappedBy(o, filename)
      ELSE o.out = o.in

\* C9, amended: a text run is replaced by a synthetic span (rendered-by, an
\* editor-id, the text as its only child) exactly when it is not whitespace
\* only and its parent is a composed component that the passes reach and
\* that is neither a component root nor the element a callback returns;
\* every other text run is left untouched.
C9_TextWrappingBelowRoots ==
  Finished =>
    \A o \in textRuns :
      IF isNonBlankText(o.in) /\ isHandedOver(o)
      THEN isWrappedBy(o, filename)
      ELSE o.out = o.in

\* one finished run wrapped a text below an inner composed component and
\* left a text below a composed root, and a whitespace run, untouched
C9_WrappedAndLeft ==
  /\ Finished
  /\ \E o \in textRuns : isNonBlankText(o.in) /\ isHandedOver(o) /\ isWrappedBy(o, filename)
  /\ \E o \in textRuns :
       /\ isNonBlankText(o.in)
       /\ isReactComponent(o.at.parent)
       /\ o.at.parentRole = "root"
       /\ o.out = o.in
  /\ \E o \in textRuns : ~isNonBlankText(o.in) /\ o.out = o.in

identifierSlots == { o \in observations : isIdentifierSlot(o) }

\* C10 (Children passthrough): a slot holding the identifier children is
\* never wrapped, whatever its parent; any other identifier slot handed to a
\* composed component is wrapped like a text run.
C10_ChildrenPassthrough ==
  Finished =>
    \A o \in identifierSlots :
      IF o.in.expression.name = children
      THEN o.out = o.in
      ELSE isHandedOver(o) => isWrappedBy(o, filename)


\* skipFile occurs in name: some characters, then skipFile, then some more
occursIn(skipFile, name) ==
  \E i, j \in 0..Len(name) : i <= j /\ SubSeq(name, i + 1, j) = skipFile

isSkipListed ==
  \E k \in DOMAIN skipFiles :
    skipFiles[k] = filename \/ occursIn(skipFiles[k], filename)

\* C11 (Skip list): when an entry of skipFiles equals the file path or occurs
\* in it, no component of the file is visited and the tree stays as it was
\* received: no attribute added, no child wrapped.
C11_SkipList ==
  isSkipListed => (program = input /\ visited = 0 /\ contexts = <<>>)

\* a file skipped for an entry that occurs in its path without being equal
\* to it, left as received, after the same source compiled under a path
\* that is not listed came out annotated
C11_SkippedWhereAnnotated ==
  /\ isSkipListed
  /\ \A k \in DOMAIN skipFiles : skipFiles[k] # filename
  /\ Finished
  /\ program = input
  /\ \E h \in DOMAIN history :
       /\ history[h].input = input
       /\ history[h].output # input
       /\ history[h].contexts # <<>>

\* the element or wrapping span carries more attributes called name than
\* the node it stands for did
hasGained(o, name) ==
  attributeCount(o.out, name) > (IF isElement(o) THEN attributeCount(o.in, name) ELSE 0)

\* C12 (Absent filename): without a configured filename no element, root,
\* descendant, wrapping span or loop element, gains a metadata attribute.
C12_AbsentFilename ==
  (Finished /\ filename = <<>>) =>
    \A o \in annotated : \A name \in MetadataNames : ~hasGained(o, name)

\* ------------------------------------------------------------------------
\* The ids of loop elements

\* the elements the callbacks of the detected loops return whose subtree
\* references an item name, as the run received and left them, with the
\* callback that returns them
loopElements ==
  { [in |-> s.in.expression.arguments[1].body,
     out |-> s.out.expression.arguments[1].body,
     callback |-> s.in.expression.arguments[1]] :
      s \in { o \in observations :
                /\ isCallbackSlot(o.in)
                /\ isCollectionRenderingCall(o.in.expression, filename,
                                             o.at.component.scope)
                /\ o.in.expression.arguments[1].body.type = "JSXElement"
                /\ elementReferencesParamNames(
                     o.in.expression.arguments[1].body,
                     itemParamNamesOf(o.in.expression.arguments[1])) } }

\* the expression of the key attribute of an element, Null without one
keyOf(element) ==
  Bind(attributeNamed(element, "key"), LAMBDA value :
    IF value.type = "JSXExpressionContainer" THEN value.expression ELSE value)

\* the index parameter of a callback as an expression, Null without one
indexOf(callback) ==
  IF Len(callback.params) >= 2 /\ callback.params[2].type = "Identifier"
  THEN Identifier(callback.params[2].name)
  ELSE Null

HexDigits ==
  {"0", "1", "2", "3", "4", "5", "6", "7", "8", "9", "a", "b", "c", "d", "e", "f"}

isBase(text) ==
  Len(text) = DigestLength /\ \A k \in DOMAIN text : text[k] \in HexDigits

\* value is the template `<12-hex base>:${suffix}`
isTemplateOver(value, suffix) ==
  /\ value.type = "JSXExpressionContainer"
  /\ value.expression.type = "TemplateLiteral"
  /\ Len(value.expression.head) = DigestLength + 1
  /\ isBase(SubSeq(value.expression.head, 1, DigestLength))
  /\ value.expression.head[DigestLength + 1] = ":"
  /\ value.expression.expression = suffix

RECURSIVE idsOf(_)
RECURSIVE idsOfAll(_)
idsOfAll(nodes) ==
  IF nodes = <<>> THEN <<>> ELSE idsOf(Head(nodes)) \o idsOfAll(Tail(nodes))

idsOf(node) ==
  IF node.type = "JSXElement"
  THEN (IF attributeNamed(node, "data-editor-id").type = "null" THEN <<>>
        ELSE << attributeNamed(node, "data-editor-id") >>)
         \o idsOfAll(node.children)
  ELSE IF node.type = "JSXFragment" THEN idsOfAll(node.children)
  ELSE <<>>

\* the roots the two components return, and what the run made of them
leftSource == input[1].returns[1]
rightSource == input[2].returns[1]
leftResult == program[1].returns[1]
rightResult == program[2].returns[1]

isPair == Len(input) = 2 /\ visited = 2

\* the same tags, attribute names and kinds of children at the same
\* positions: the trees differ in texts and in attribute values at most
RECURSIVE sameStructure(_, _)
sameStructure(left, right) ==
  /\ left.type = right.type
  /\ IF left.type = "JSXElement"
     THEN /\ left.name = right.name
          /\ Len(left.attributes) = Len(right.attributes)
          /\ \A k \in DOMAIN left.attributes :
               /\ left.attributes[k].type = right.attributes[k].type
               /\ left.attributes[k].type = "JSXAttribute"
                    => left.attributes[k].name = right.attributes[k].name
          /\ Len(left.children) = Len(right.children)
          /\ \A k \in DOMAIN left.children :
               sameStructure(left.children[k], right.children[k])
     ELSE IF left.type = "JSXText" THEN TRUE
     ELSE left = right

\* of the same structure, with the same authored editor-ids, and with texts
\* that are blank in both trees or in neither
RECURSIVE sameBesidesContent(_, _)
sameBesidesContent(left, right) ==
  /\ sameStructure(left, right)
  /\ IF left.type = "JSXElement"
     THEN /\ attributeNamed(left, "data-editor-id")
               = attributeNamed(right, "data-editor-id")
          /\ \A k \in DOMAIN left.children :
               sameBesidesContent(left.children[k], right.children[k])
     ELSE IF left.type = "JSXText"
     THEN (trim(left.value) = <<>>) <=> (trim(right.value) = <<>>)
     ELSE TRUE

RECURSIVE sameBesidesTags(_, _)
sameBesidesTags(left, right) ==
  /\ left.type = right.type
  /\ IF left.type = "JSXElement"
     THEN /\ left.attributes = right.attributes
          /\ Len(left.children) = Len(right.children)
          /\ \A k \in DOMAIN left.children :
               sameBesidesTags(left.children[k], right.children[k])
     ELSE left = right

\* C18 (Tag sensitivity of ids), as claimed: two components of one file
\* whose trees are the same except for the tag names of elements at the same
\* positions receive different editor-id sequences.
C18_TagSensitive ==
  (isPair /\ sameBesidesTags(leftSource, rightSource) /\ leftSource # rightSource)
    => idsOf(leftResult) # idsOf(rightResult)

\* the editor-id an author has put on an element: a string that is not
\* blank; <<>> when the element carries none
authoredId(element) ==
  Bind(attributeNamed(element, "data-editor-id"), LAMBDA value :
    IF value.type = "StringLiteral" /\ trim(value.value) # <<>>
    THEN value.value
    ELSE <<>>)

\* the elements of the finished components that carry an authored id no
\* other element of their component carries
solelyAuthored ==
  { o \in observations :
      /\ isElement(o)
      /\ authoredId(o.in) # <<>>
      /\ \A other \in observations :
           (/\ isElement(other)
            /\ other.at.component = o.at.component
            /\ authoredId(other.in) = authoredId(o.in))
             => other = o }

\* C19 (Explicit ids survive synthesis): an element whose authored editor-id
\* is not blank and differs from every other authored editor-id of its
\* component keeps that id, whatever ids are synthesized for other elements.
C19_AuthoredIdsSurvive ==
  \A o \in solelyAuthored :
    attributeNamed(o.out, "data-editor-id") = StringLiteral(authoredId(o.in))

\* ------------------------------------------------------------------------
\* The roots of a component with nested functions

\* C20 (Roots are only what the component returns): an element that the
\* component's own function does not return, the element returned by a
\* function nested in the component among them, gains neither
\* component-file nor component-name.
C20_RootsAreReturned ==
  Finished =>
    \A o \in observations :
      (isElement(o) /\ o.at.role # "root") =>
        /\ ~hasGained(o, "data-component-file")
        /\ ~hasGained(o, "data-component-name")

\* ------------------------------------------------------------------------
\* The source attributes of loop elements

\* the element the callback of the loop returns
loopElement == loopCall.arguments[1].body

\* the expression it embeds: its child, or the value of its src
embeddedExpression ==
  IF loopElement.children # <<>> THEN loopElement.children[1].expression
  ELSE loopElement.attributes[1].value.expression

\* the elements of the literal array the loop renders
literalElements == scope[1].init.elements

isLiteralCollection == scope[1].init.type = "ArrayExpression"

\* the name of the callback's index parameter, empty where it has none
indexParamName ==
  IF Len(loopCall.arguments[1].params) > 1
  THEN loopCall.arguments[1].params[2].name ELSE <<>>

\* the source attribute the loop module has set on the element
sourceValue ==
  LET sources == {k \in DOMAIN loopElement.attributes :
                    loopElement.attributes[k].name
                      \in {"data-children-source", "data-img-source"}}
  IN [by |-> annotatedBy,
      value |-> IF sources = {} THEN Null
                ELSE loopElement.attributes[CHOOSE k \in sources : TRUE].value]

\* the loop annotator has set a source attribute on the element
isEmitted == sourceValue.by # "none" /\ sourceValue.value.type # "null"

\* the member of the object literal that the key names
memberNamed(object, key) ==
  IF \E k \in DOMAIN object.properties :
       /\ object.properties[k].key.type = "Identifier"
       /\ object.properties[k].key.name = key
  THEN (CHOOSE p \in {object.properties[k] : k \in DOMAIN object.properties} :
          p.key.type = "Identifier" /\ p.key.name = key).value
  ELSE Null

\* the part of the literal element that the embedded expression reads when
\* the item is that element: null where the element has no such part
RECURSIVE accessedField(_, _)
accessedField(element, embedded) ==
  IF embedded.type = "Identifier" THEN element
  ELSE LET object == accessedField(element, embedded.object)
       IN IF object.type = "ObjectExpression"
             /\ ~embedded.computed /\ embedded.property.type = "Identifier"
          THEN memberNamed(object, embedded.property.name)
          ELSE IF object.type = "ArrayExpression"
                  /\ embedded.computed
                  /\ embedded.property.type = "NumericLiteral"
                  /\ embedded.property.value + 1 \in DOMAIN object.elements
          THEN object.elements[embedded.property.value + 1]
          ELSE Null

\* the k-th element of the literal array has the part the expression reads
resolvesIn(k) ==
  /\ literalElements[k].type \notin {"null", "SpreadElement"}
  /\ accessedField(literalElements[k], embeddedExpression).type # "null"

\* {"file":"<file>","start":"<line>:<column>","end":"<line>:<column>"
descriptorText(file, loc) ==
  <<"{", "\"", "f", "i", "l", "e", "\"", ":", "\"">> \o file
    \o <<"\"", ",", "\"", "s", "t", "a", "r", "t", "\"", ":", "\"">>
    \o toString(loc.start.line) \o <<":">> \o toString(loc.start.column + 1)
    \o <<"\"", ",", "\"", "e", "n", "d", "\"", ":", "\"">>
    \o toString(loc.end.line) \o <<":">> \o toString(loc.end.column + 1)
    \o <<"\"">>

\* the text is a location descriptor of the node: file, start and end, and
\* possibly an id after them
isDescriptorOf(text, file, node) ==
  LET expected == descriptorText(file, node.loc)
  IN /\ Len(text) > Len(expected)
     /\ SubSeq(text, 1, Len(expected)) = expected
     /\ \/ SubSeq(text, Len(expected) + 1, Len(text)) = <<"}">>
        \/ /\ Len(text) > Len(expected) + 6
           /\ SubSeq(text, Len(expected) + 1, Len(expected) + 6)
                = <<",", "\"", "i", "d", "\"", ":">>
           /\ text[Len(text)] = "}"

\* the value is { [entries][index] }: an array literal read at the callback's
\* index parameter
isIndexedArray(value) ==
  /\ value.type = "JSXExpressionContainer"
  /\ value.expression.type = "MemberExpression"
  /\ value.expression.computed
  /\ value.expression.property = Identifier(indexParamName)
  /\ value.expression.object.type = "ArrayExpression"

entriesOf(value) == value.expression.object.elements

\* C13 (Loop source value): over a literal array of two or more elements with
\* an index parameter, an emitted children-source / img-source value is the
\* array of per-element descriptors read at the index, whose i-th entry is the
\* descriptor of the accessed field of the i-th element; over one element, or
\* without an index parameter, it is one static descriptor of the accessed
\* field of an element.
C13_LoopSourceValue ==
  isEmitted =>
    IF Len(literalElements) >= 2 /\ indexParamName # <<>>
    THEN /\ isIndexedArray(sourceValue.value)
         /\ Len(entriesOf(sourceValue.value)) = Len(literalElements)
         /\ \A k \in DOMAIN literalElements :
              resolvesIn(k) =>
                /\ entriesOf(sourceValue.value)[k].type = "StringLiteral"
                /\ isDescriptorOf(entriesOf(sourceValue.value)[k].value, filename,
                                  accessedField(literalElements[k], embeddedExpression))
    ELSE /\ sourceValue.value.type = "StringLiteral"
         /\ \E k \in DOMAIN literalElements :
              /\ resolvesIn(k)
              /\ isDescriptorOf(sourceValue.value.value, filename,
                                accessedField(literalElements[k], embeddedExpression))

\* C14 (All-or-nothing source annotation): a children-source / img-source
\* value is emitted only where the accessed path resolves in every element of
\* the literal array, and every entry of an emitted array is a descriptor.
C14_AllOrNothing ==
  isEmitted =>
    /\ \A k \in DOMAIN literalElements : resolvesIn(k)
    /\ isIndexedArray(sourceValue.value) =>
         \A k \in DOMAIN entriesOf(sourceValue.value) :
           entriesOf(sourceValue.value)[k].type = "StringLiteral"

\* the loop module has met the call
isAnnotated == annotatedBy # "none"

isFactoryCall(node) ==
  /\ node.type = "CallExpression"
  /\ node.callee.type = "MemberExpression"
  /\ node.callee.object = Identifier(<<"R", "e", "a", "c", "t">>)
  /\ node.callee.property
       = Identifier(<<"c", "r", "e", "a", "t", "e", "E", "l", "e", "m", "e", "n", "t">>)
  /\ Len(node.arguments) > 0

\* the attribute a property of props stands for: name="value", name={value}
\* or {...argument}
propertyAsAttribute(prop) ==
  IF prop.type = "ObjectProperty"
  THEN JSXAttribute(Text(IF prop.key.type = "StringLiteral" THEN prop.key.value
                         ELSE prop.key.name),
                    IF prop.value.type = "StringLiteral" THEN prop.value
                    ELSE JSXExpressionContainer(prop.value))
  ELSE [type |-> "JSXSpreadAttribute", argument |-> prop.argument]

\* the element a factory call stands for: its tag, an attribute for each
\* property of props, a child for each child argument in argument order
RECURSIVE asElement(_)
asElement(call) ==
  JSXElement(
    IF call.arguments[1].type = "StringLiteral" THEN call.arguments[1].value
    ELSE call.arguments[1].name,
    IF Len(call.arguments) < 2 \/ call.arguments[2].type = "null" THEN <<>>
    ELSE IF call.arguments[2].type = "ObjectExpression"
    THEN [k \in DOMAIN call.arguments[2].properties |->
            propertyAsAttribute(call.arguments[2].properties[k])]
    ELSE << [type |-> "JSXSpreadAttribute", argument |-> call.arguments[2]] >>,
    [k \in 1..(Len(call.arguments) - 2) |->
       Bind(call.arguments[k + 2], LAMBDA child :
         IF child.type = "StringLiteral" THEN JSXText(child.value)
         ELSE IF isFactoryCall(child) THEN asElement(child)
         ELSE IF child.type = "SpreadElement"
         THEN [type |-> "JSXSpreadChild", expression |-> child.argument]
         ELSE JSXExpressionContainer(child))])

\* what the run makes of the component when it returns element
annotatedAs(component, element) ==
  processComponent([component EXCEPT !.returns = <<element>>], <<run, 1>>,
                   component.id, filename, {}).component.returns[1]

returnsFactoryCall == Len(input) = 1 /\ isFactoryCall(input[1].returns[1])

\* C21 (Factory-call normalization): a returned React.createElement("tag",
\* props, ...children) is annotated as the element with that tag, an
\* attribute for each property of props and a child for each child argument
\* is annotated.
C21_FactoryNormalization ==
  (Finished /\ returnsFactoryCall) =>
    program[1].returns[1] = annotatedAs(input[1], asElement(input[1].returns[1]))

\* ------------------------------------------------------------------------
\* Access paths

\* the expression inside the parentheses and type casts around it
RECURSIVE bare(_)
bare(e) ==
  IF e.type \in {"ParenthesizedExpression", "TSAsExpression", "TypeCastExpression",
                 "TSTypeAssertion"}
  THEN bare(e.expression)
  ELSE e

isMember(e) == e.type \in {"MemberExpression", "OptionalMemberExpression"}

\* the identifier a chain of member accesses starts at, Null when it starts
\* at anything else
RECURSIVE rootOf(_)
rootOf(e) ==
  IF isMember(e) THEN rootOf(e.object)
  ELSE IF e.type = "Identifier" THEN e
  ELSE Null

\* the key of a link as a name: of .name, ["name"] and [0]; <<>> for a
\* computed key that is no literal and for a private name
keyNameOf(e) ==
  IF ~e.computed /\ e.property.type = "Identifier" THEN e.property.name
  ELSE IF e.property.type = "StringLiteral" THEN e.property.value
  ELSE IF e.property.type = "NumericLiteral" THEN toString(e.property.value)
  ELSE <<>>

\* the names of the keys of a chain, from its root on
RECURSIVE keyNamesOf(_)
keyNamesOf(e) ==
  IF isMember(e) THEN Append(keyNamesOf(e.object), keyNameOf(e)) ELSE <<>>

isWholePath(e) ==
  /\ rootOf(e).type = "Identifier"
  /\ \A k \in DOMAIN keyNamesOf(e) : keyNamesOf(e)[k] # <<>>

\* C22 (No partial access paths): extractPropertyAccess returns the base name
\* with no segment for a bare identifier, the base name with a segment for
\* every key for a chain of dot-identifier and literal keys rooted at an
\* identifier, and null for every other expression: never a shorter path.
C22_NoPartialPaths ==
  returned # Pending =>
    IF isWholePath(bare(given))
    THEN /\ returned.type = "access"
         /\ returned.baseName = rootOf(bare(given)).name
         /\ [k \in DOMAIN returned.segments |-> returned.segments[k].name]
              = keyNamesOf(bare(given))
    ELSE returned = Null

\* item.title[index] has been refused as a whole
C22_RefusedBehindAKey ==
  /\ given = linked(linked(Identifier(item), [property |-> Identifier(title),
                                                 computed |-> FALSE, optional |-> FALSE]),
                       [property |-> Identifier(index), computed |-> TRUE,
                        optional |-> FALSE])
  /\ returned = Null


\* ------------------------------------------------------------------------
\* The walk through a literal

\* the name an object literal writes a key with
writtenKey(key) ==
  IF key.type = "Identifier" THEN key.name
  ELSE IF key.type = "StringLiteral" THEN key.value
  ELSE <<>>

\* the value of the key of an object literal, null where it has no such key
valueOfKey(literal, name) ==
  IF literal.type # "ObjectExpression" THEN Null
  ELSE LET keyed == { k \in DOMAIN literal.properties :
                        /\ literal.properties[k].type = "ObjectProperty"
                        /\ writtenKey(literal.properties[k].key) = name }
       IN IF keyed = {} THEN Null
          ELSE literal.properties[CHOOSE k \in keyed : \A j \in keyed : k <= j].value

\* the n-th element of an array literal, null where it has none
nthElement(literal, n) ==
  IF literal.type # "ArrayExpression" THEN Null
  ELSE IF n + 1 \notin DOMAIN literal.elements THEN Null
  ELSE IF literal.elements[n + 1].type = "SpreadElement" THEN Null
  ELSE literal.elements[n + 1]

\* the node the keys lead to, null from the first key that does not match the
\* shape of the literal: a name selects the value of a key, a number the n-th
\* element
RECURSIVE reached(_, _)
reached(literal, keys) ==
  IF literal.type \in {"null", "SpreadElement"} THEN Null
  ELSE IF keys = <<>> THEN literal
  ELSE reached(IF Head(keys).property.type = "NumericLiteral"
               THEN nthElement(literal, Head(keys).property.value)
               ELSE valueOfKey(literal, Head(keys).property.name),
               Tail(keys))

\* C23: the walk through a literal returns the location descriptor of the node
\* the access leads to (a property segment to the value of the matching key of
\* an object literal, a literal numeric key to the n-th element of an array
\* literal), and null where a segment does not match the shape of the literal
C23_LiteralWalk ==
  (given.type = "walk" /\ returned # Pending) =>
    LET node == reached(given.element, given.keys)
    IN IF node.type = "null" THEN returned = Null
       ELSE returned = JsString(formatLocation(filename, node.loc))

\* ------------------------------------------------------------------------
\* The sources of variables outside loops

\* the element or one below it carries a children-source or an img-source
RECURSIVE hasVariableSource(_)
hasVariableSource(node) ==
  /\ node.type = "JSXElement"
  /\ \/ \E k \in DOMAIN node.attributes :
          node.attributes[k].name \in {"data-children-source", "data-img-source"}
     \/ \E k \in DOMAIN node.children : hasVariableSource(node.children[k])

LiteralKinds ==
  {"ObjectExpression", "ArrayExpression", "StringLiteral", "NumericLiteral",
   "BooleanLiteral", "NullLiteral", "TemplateLiteral"}

\* the variable is declared in the file with a literal initializer and is
\* never assigned again
literallyBound(bindings, name) ==
  \E k \in DOMAIN bindings :
    /\ bindings[k].name = name
    /\ bindings[k].isVariableDeclarator
    /\ bindings[k].constantViolations = 0
    /\ bindings[k].init.type \in LiteralKinds

\* C24: outside loops a children-source or img-source is emitted only for a
\* variable that is bound to a literal initializer in the file and is never
\* reassigned; a variable initialized from a call or another dynamic expression
\* gets none, the bare variable included
C24_DynamicStaysUnannotated ==
  (given.type = "variables" /\ returned # Pending /\ hasVariableSource(returned))
    => literallyBound(given.bindings, heroContent)

\* ------------------------------------------------------------------------
\* The child a children-source is derived from

\* the expression is bound to the loop: it mentions the item of the callback
RECURSIVE isLoopBound(_)
isLoopBound(expression) ==
  IF expression.type = "Identifier" THEN expression.name = item
  ELSE IF expression.type = "MemberExpression" THEN isLoopBound(expression.object)
  ELSE IF expression.type = "CallExpression"
  THEN \E k \in DOMAIN expression.arguments : isLoopBound(expression.arguments[k])
  ELSE FALSE

\* the places of the children that embed a loop-bound expression
loopBoundChildren(childPaths) ==
  { k \in DOMAIN childPaths :
      /\ childPaths[k].type = "JSXExpressionContainer"
      /\ isLoopBound(childPaths[k].expression) }

\* the first loop-bound child alone
firstOnly(childPaths) ==
  IF loopBoundChildren(childPaths) = {} THEN <<>>
  ELSE << childPaths[CHOOSE k \in loopBoundChildren(childPaths) :
                     \A j \in loopBoundChildren(childPaths) : k <= j] >>

\* what the revision makes of the children
childInfoBy(module, childPaths) ==
  IF module = "index.tsx" THEN getDynamicChildInfoFrom(childPaths, {item})
  ELSE IF module = "loopMetadata.ts"
  THEN loopMetadata_getDynamicChildInfo(childPaths, {item})
  ELSE loopModule_getDynamicChildInfo(childPaths, {item})

\* C25: the children-source of an element is derived from the first of its
\* loop-bound expression children alone: what is found for the element is what
\* is found for it with that one child only
C25_FirstMatchWins ==
  (given.type = "children" /\ returned # Pending) =>
    returned = childInfoBy(given.module, firstOnly(given.element.children))

\* ------------------------------------------------------------------------
\* The bridge pass

isBridge(node) == node.type = "JSXElement" /\ node.name = LivePreviewBridge

isNative(node) ==
  node.type = "JSXElement" /\ node.name # <<>> /\ Head(node.name) \in LowerCase

carriesEditorId(node) ==
  \E k \in DOMAIN node.attributes :
    /\ node.attributes[k].type = "JSXAttribute"
    /\ node.attributes[k].name = "data-editor-id"

\* the element is one the pass is to wrap
isWrapTarget(node, parentNode) ==
  isNative(node) /\ carriesEditorId(node) /\ ~isBridge(parentNode)

\* the tree with every wrap target in one bridge element, the attributes of
\* the bridge elements left open
RECURSIVE wrappedOnce(_, _)
wrappedOnce(node, parentNode) ==
  IF node.type = "JSXElement"
  THEN LET below == [node EXCEPT
                       !.children = [k \in DOMAIN node.children |->
                                       wrappedOnce(node.children[k], node)]]
       IN IF isWrapTarget(node, parentNode)
          THEN JSXElement(LivePreviewBridge, <<>>, <<below>>)
          ELSE below
  ELSE IF node.type = "JSXFragment"
  THEN [node EXCEPT !.children = [k \in DOMAIN node.children |->
                                    wrappedOnce(node.children[k], node)]]
  ELSE IF node.type = "JSXExpressionContainer"
  THEN [node EXCEPT !.expression = wrappedOnce(node.expression, node)]
  ELSE node

\* the tree without the attributes the pass gives its bridge elements
RECURSIVE bridgesBared(_)
bridgesBared(node) ==
  IF node.type = "JSXElement"
  THEN [node EXCEPT
          !.attributes = IF isBridge(node) THEN <<>> ELSE @,
          !.children = [k \in DOMAIN node.children |->
                          bridgesBared(node.children[k])]]
  ELSE IF node.type = "JSXFragment"
  THEN [node EXCEPT !.children = [k \in DOMAIN node.children |->
                                    bridgesBared(node.children[k])]]
  ELSE IF node.type = "JSXExpressionContainer"
  THEN [node EXCEPT !.expression = bridgesBared(node.expression)]
  ELSE node

\* C26: the bridge pass wraps an element if and only if it is native, carries
\* an editor-id and its parent is not the bridge component, each such element
\* once, and the pass over its own output wraps nothing further
C26_BridgeWrapping ==
  (given.type = "bridge" /\ ~isSkipped(filename, skipFiles)) =>
    /\ Len(returned) >= 1 =>
         bridgesBared(returned[1])
           = bridgesBared(wrappedOnce(given.tree, Null))
    /\ Len(returned) >= 2 => returned[2] = returned[1]

\* ------------------------------------------------------------------------
\* A component declared in the body of another

\* the declared component has been visited, behind the one that declares it
declaredIsVisited ==
  /\ program # <<>>
  /\ Len(program[1].scope) = 2
  /\ IsFunction(program[1].scope[2].init)
  /\ Len(contexts) = 2

\* what the declared component is annotated to where no other component has
\* been processed before it
declaredAlone ==
  processComponent(declaredComponent(input[1], 2), <<0>>, input[1].scope[2].name,
                   filename, {}).component.returns[1]

\* C27 (Per-component isolation): the annotations of a component do not depend
\* on which other components were processed before it: a component declared
\* in the body of another is annotated as it is where nothing was processed
\* before it
C27_Isolated ==
  declaredIsVisited => program[1].scope[2].init.body = declaredAlone

\* ------------------------------------------------------------------------
\* The calls of the assigner

\* the call has synthesized its id
hasSynthesized ==
  returned.context.elementCounter # given.context.elementCounter

\* C28 (Assigner totality): a call of the assigner returns an id that was not
\* among the used ids when it began and is among them when it returns; the
\* counter never decreases; and an id that is synthesized is the fingerprint
\* of the first counter value, from the one the call began at, whose
\* fingerprint was not used, the counter left behind it
C28_AssignerTotality ==
  (given.type = "assign" /\ returned # Pending) =>
    /\ returned.finalId \notin given.context.usedIds
    /\ returned.finalId \in returned.context.usedIds
    /\ returned.context.elementCounter >= given.context.elementCounter
    /\ hasSynthesized =>
         /\ returned.finalId
              = fingerprintAt(given.context, returned.context.elementCounter - 1)
         /\ \A counter \in given.context.elementCounter
                             .. (returned.context.elementCounter - 2) :
              fingerprintAt(given.context, counter) \in given.context.usedIds

\* a call that met two used fingerprints before it found an unused one
C28_RetriedTwice ==
  /\ given.type = "assign"
  /\ returned # Pending
  /\ returned.context.elementCounter = given.context.elementCounter + 3

\* ------------------------------------------------------------------------
\* One call of the assigner per element

\* the number of elements of a tree that carry an editor-id, the elements
\* of callbacks and of createElement arguments included
RECURSIVE assignedElements(_)
RECURSIVE assignedElementsOfAll(_)
assignedElementsOfAll(nodes) ==
  IF nodes = <<>> THEN 0
  ELSE assignedElements(Head(nodes)) + assignedElementsOfAll(Tail(nodes))

assignedElements(node) ==
  IF node.type = "JSXElement"
  THEN (IF attributeNamed(node, "data-editor-id").type = "null" THEN 0 ELSE 1)
         + assignedElementsOfAll(node.children)
  ELSE IF node.type = "JSXFragment" THEN assignedElementsOfAll(node.children)
  ELSE IF node.type = "JSXExpressionContainer" THEN assignedElements(node.expression)
  ELSE IF node.type = "CallExpression" THEN assignedElementsOfAll(node.arguments)
  ELSE IF IsFunction(node) THEN assignedElements(node.body)
  ELSE IF node.type = "BlockStatement" THEN assignedElementsOfAll(node.body)
  ELSE IF node.type = "ReturnStatement" THEN assignedElements(node.argument)
  ELSE 0

\* C29: within one pass the assigner is called at most once for an
\* element: a component's context never holds more calls than the
\* component's output has elements carrying an editor-id, so no element
\* took two calls, two counter values or two used-id entries
C29_SingleAssignment ==
  \A c \in DOMAIN contexts :
    Len(contexts[c].calls) <= assignedElementsOfAll(program[c].returns)

\* ------------------------------------------------------------------------
\* The updates a mounted bridge takes

\* the file the wrapped element was authored in
authoredFilePath ==
  IF "data-component-file" \in DOMAIN given.child
  THEN given.child["data-component-file"]
  ELSE given.child["data-rendered-by"]

\* the overrides, null ones left out, of the updates of a message that are
\* addressed to the bridge
addressedOverrides(data) ==
  LET addressed == SelectSeq(data.updates, LAMBDA update :
                     /\ update.editorId = given.editorId
                     /\ update.filePath = authoredFilePath
                     /\ ~isNull(update.overrides))
  IN  [k \in DOMAIN addressed |-> addressed[k].overrides]

\* key by key, the value of the last of the overrides that has the key
laterWins(overridesList) ==
  [k \in UNION { DOMAIN overridesList[n] : n \in DOMAIN overridesList } |->
     LET having == { n \in DOMAIN overridesList : k \in DOMAIN overridesList[n] }
     IN  overridesList[CHOOSE n \in having : \A m \in having : m <= n][k]]

sameObject(one, another) ==
  /\ DOMAIN one = DOMAIN another
  /\ \A k \in DOMAIN one : one[k] = another[k]

\* C30: once a message of the configured type has been posted, the
\* overrides a bridge holds are the merge, later entries first, of the
\* updates of the most recent such message that are addressed to its editor
\* id and to the file its element was authored in; when there are none, or
\* null ones only, the bridge renders the original element and has no entry
\* in the store
C30_BridgeProtocol ==
  (given.type = "runtime" /\ returned.heard > 0) =>
    LET expected == laterWins(addressedOverrides(returned.latest))
    IN  /\ sameObject(returned.mounted.overrides, expected)
        /\ DOMAIN expected = {} =>
             /\ sameObject(returned.mounted.element, given.child)
             /\ given.editorId \notin DOMAIN returned.mounted.elementOverrides
====
